---- MODULE Spec2Model ----
(***************************************************************************)
(* Batch text-to-speech generation of english-learning-app:                *)
(* backend/src/routes/ttsRoutes.js, router.post('/generate-batch'),        *)
(* parallelLimit and generateAudio.                                        *)
(*                                                                         *)
(* One behaviour is one request.  The handler and every promise reaction   *)
(* run to completion on the single JavaScript thread, so each action is    *)
(* one job: the handler's synchronous prefix, or the job at the head of    *)
(* the microtask queue mq (ECMAScript HostEnqueuePromiseJob, FIFO).        *)
(* execSync blocks inside the job that calls it, so an engine invocation   *)
(* begins and ends inside one action.                                      *)
(*                                                                         *)
(* Positions of sentences are 1-based here (j); the code's index is j - 1. *)
(* Strings the code inspects character by character are sequences of       *)
(* one-character strings.  Messages are ASCII renderings of the source's   *)
(* literals.                                                               *)
(***************************************************************************)
EXTENDS Naturals, Integers, Sequences, FiniteSets, TLC

(***************************************************************************)
(* Bounds of the model and constants of the program.                       *)
(***************************************************************************)
\* longest request body (number of sentences) under Spec
MaxSentences == 6
\* longest task list and largest limit under SpecPL
MaxTasks == 4
MaxLimit == 3
\* number of wordbook requests under SpecWB, longest imported list
MaxRequests == 3
MaxImport == 2
\* number of generate-word requests under SpecWord
MaxWordRequests == 4
\* longest list of sentence items under SpecUI, ids handed out, pending
\* setTimeout callbacks and countdown callbacks followed
MaxItems == 3
MaxIds == 3
MaxTimeouts == 1
MaxTicks == 300
\* longest list of sentence items under SpecTimer
MaxTimerItems == 2
\* ids handed out beyond MAX_HISTORY under SpecList
MaxNew == 2
\* ttsRoutes.js:18
MAX_CONCURRENT == 5
\* SentenceList.tsx:38
MAX_HISTORY == 20
\* SentenceList.tsx:307, 2 * 60 * 60
TWO_HOURS == 7200
\* SentenceList.tsx:618-625, the options of the timer select (one of the eight)
TimerMinutes == {5}
\* the texts typed into the edit form: blank, and two others
EditTexts == {0, 8, 9}
\* ttsRoutes.js:39
DEFAULT_VOICE == "en-US-JennyNeural"
\* ttsRoutes.js:24-36 (the keys; two of the eight are enough to tell valid from invalid)
VOICE_OPTIONS == {"en-US-JennyNeural", "en-GB-RyanNeural"}
\* ttsRoutes.js:257, padStart(3, '0')
PadWidth == 3

\* the literals of the source
ERR_EMPTY_TEXT == "kong wenben (empty text)"
ERR_FILE_EMPTY == "generated audio file is empty"
ERR_FILE_MISSING == "audio file was not generated"
ERR_EXEC_EXIT == "edge-tts failed: Command failed"
ERR_EXEC_TIMEOUT == "edge-tts failed: ETIMEDOUT"
ERR_TEXT_EMPTY == "text content is empty"
ERR_UNKNOWN == "unknown error"
ERR_BAD_SENTENCES == "please provide a valid sentence array"
ERR_BAD_VOICE == "invalid voice id"
ERR_NO_ENGINE == "edge-tts not installed"
ERR_BATCH_FAILED == "batch TTS generation failed"
MSG_TRIM_TYPEERROR == "sentence.trim is not a function"

ERR_WORD_REQUIRED == "danci he shiyi wei bitian xiang (word and meaning are required)"
ERR_NO_SUCH_WORD == "danci bu cunzai (no such word)"
ERR_BAD_IMPORT == "qing tigong youxiao de danci shuzu (a valid array of words is required)"

NULL == <<>>
NoError == ""

(***************************************************************************)
(* Strings.                                                                *)
(***************************************************************************)
WhiteSpace == {" ", "\n", "\r", "\t"}

RECURSIVE TrimStart(_)
TrimStart(s) ==
    IF s = <<>> THEN <<>>
    ELSE IF Head(s) \in WhiteSpace THEN TrimStart(Tail(s)) ELSE s

RECURSIVE TrimEnd(_)
TrimEnd(s) ==
    IF s = <<>> THEN <<>>
    ELSE IF s[Len(s)] \in WhiteSpace THEN TrimEnd(SubSeq(s, 1, Len(s) - 1)) ELSE s

\* String.prototype.trim
Trim(s) == TrimEnd(TrimStart(s))

\* String(n) for n >= 0, as decimal digit characters
DigitChar(d) ==
    CASE d = 0 -> "0" [] d = 1 -> "1" [] d = 2 -> "2" [] d = 3 -> "3" [] d = 4 -> "4"
      [] d = 5 -> "5" [] d = 6 -> "6" [] d = 7 -> "7" [] d = 8 -> "8" [] d = 9 -> "9"

RECURSIVE ToDecimal(_)
ToDecimal(n) ==
    IF n < 10 THEN <<DigitChar(n)>> ELSE ToDecimal(n \div 10) \o <<DigitChar(n % 10)>>

\* String.prototype.padStart(width, ch)
RECURSIVE PadStart(_, _, _)
PadStart(s, width, ch) ==
    IF Len(s) >= width THEN s ELSE PadStart(<<ch>> \o s, width, ch)

(***************************************************************************)
(* The request body.  A sentence is a JSON value: a string, or something   *)
(* else (a number, null, an object), which has no trim method.             *)
(***************************************************************************)
Str(chars) == [isString |-> TRUE, chars |-> chars]
NonString == [isString |-> FALSE, chars |-> <<>>]

SentenceValues == {Str(<<" ">>), Str(<<"a", " ">>), NonString}

\* how one engine invocation can fail: execSync throws (non-zero exit, or the
\* 60 s timeout), or it returns and the output file is missing, or is empty
EngineFailures == {"exit", "timeout", "nofile", "emptyfile"}

\* sequences over S of length lo..hi
SeqsOf(S, lo, hi) == UNION {[1..n -> S] : n \in lo..hi}

(***************************************************************************)
(* State.                                                                  *)
(***************************************************************************)
VARIABLES
    sentences,          \* req.body.sentences: [isArray, items]
    voice,              \* req.body.voice
    edgeTtsAvailable,   \* module variable, ttsRoutes.js:42
    limit,              \* second argument of parallelLimit
    engineFaults,       \* environment: the ways the engine can fail during this request
    pc,                 \* the route handler: "request", "awaitPL", "responded"
    plPc,               \* parallelLimit: "none", "awaitRace", "returned", "adopting",
                        \*   "fulfilled", "threw"
    nextTask,           \* position of the next iteration of the for loop
    mq,                 \* the microtask queue
    startLog,           \* positions in the order their task() was called
    engineLog,          \* positions in the order execSync was called for them
    gOut,               \* per position: outcome of its engine invocation, or "none"
    tState,             \* per position: the promise returned by task()
    tValue,             \*   and its value (a result) or reason
    pState,             \* per position: p, the entry of results
    eState,             \* per position: e, the entry of executing
    eReact,             \* per position: the races whose reactions wait on e
    executing,          \* the array executing (positions of its entries e)
    races,              \* number of Promise.race calls so far
    raceDone,           \* the promise of the latest race is settled
    asReg,              \* Promise.allSettled(results) has been called
    asCount,            \* number of elements allSettled has recorded
    response,           \* what res.json sent, status 0 before
    audioDir            \* the files of public/audio: [name, empty, by]

VARIABLES
    wordbook,           \* data/wordbook.json: the stored list of words
    backups,            \* the files of data/backups, in the order they were written
    clock,              \* new Date(): the number of wordbook requests served
    wbResponse,         \* the response to the latest wordbook request
    words               \* the state words of the WordBook view

VARIABLES
    wordLog             \* the requests POST /api/tts/generate-word has served

VARIABLES
    sentenceItems,          \* SentenceList: the items [id, hasAudio, text, spoken]
    currentPlayingIndex,    \* 0-based, NullIndex for null
    isAutoPlay,
    playTimer,              \* seconds left, NoTimer for null
    hasCustomTimer,
    playTimerRef,           \* the countdown interval is set
    timeouts,               \* the callbacks of setTimeout not yet run, oldest first
    playing,                \* the id of the item whose audio the player plays, or NoSrc
    ticks,                  \* runs of the callback of the latest countdown interval
    timerSeconds,           \* the argument of the latest startPlayTimer, NoTimer when
                            \*   the countdown was cleared
    generating,             \* the texts of the batch request in flight, or NoRequest
    nextId,                 \* the ids generateId has handed out, plus one
    uiLast                  \* the handler that ran last, with what it found

wbVars == <<wordbook, backups, clock, wbResponse, words>>

uiVars == <<sentenceItems, currentPlayingIndex, isAutoPlay, playTimer, hasCustomTimer,
            playTimerRef, timeouts, playing, ticks, timerSeconds, generating, nextId,
            uiLast>>

\* the state of the other routes and of the page
others == <<wbVars, wordLog, uiVars>>

vars == <<sentences, voice, edgeTtsAvailable, limit, engineFaults, pc, plPc, nextTask, mq, startLog,
          engineLog, gOut, tState, tValue, pState, eState, eReact, executing, races,
          raceDone, asReg, asCount, response, audioDir, others>>

inputs == <<sentences, voice, limit, engineFaults>>

N == IF sentences.isArray THEN Len(sentences.items) ELSE 0
Pos == 1..N

NoResult == [index |-> -1, text |-> Str(<<>>), audioPath |-> NULL, success |-> FALSE,
             error |-> NoError]
NoResponse == [status |-> 0, error |-> NoError, message |-> NoError, total |-> 0,
               successCount |-> 0, results |-> <<>>]

Job(t, j, r, how) == [t |-> t, j |-> j, r |-> r, how |-> how]

NoWbResponse == [op |-> "none", status |-> 0, error |-> NoError, words |-> <<>>,
                 word |-> NonString, meaning |-> NonString, before |-> <<>>]

\* no wordbook request has been made
WordBookIdle ==
    /\ wordbook = <<>>
    /\ backups = <<>>
    /\ clock = 0
    /\ wbResponse = NoWbResponse
    /\ words = <<>>

NullIndex == -1
NoTimer == -1
NoSrc == 0
NoTimeout == [kind |-> "none", index |-> NullIndex, from |-> NullIndex]
NoRequest == <<-1>>
NoHandler == [h |-> "none", index0 |-> NullIndex, auto0 |-> FALSE, pending0 |-> 0,
              own |-> FALSE, fired |-> NoTimeout, quiet |-> FALSE,
              timer0 |-> NoTimer, custom0 |-> FALSE, afterStop |-> FALSE,
              items0 |-> <<>>, count0 |-> 0]

\* Array.prototype.slice(0, n)
Slice(seq, n) == SubSeq(seq, 1, IF Len(seq) < n THEN Len(seq) ELSE n)

\* the page before any of its handlers has run; saved is the list of
\* localStorage that the mount effect loads (lines 70-83)
PageLoaded(saved) ==
    /\ sentenceItems = Slice(saved, MAX_HISTORY)
    /\ currentPlayingIndex = NullIndex
    /\ isAutoPlay = FALSE
    /\ playTimer = NoTimer
    /\ hasCustomTimer = FALSE
    /\ playTimerRef = FALSE
    /\ timeouts = <<>>
    /\ playing = NoSrc
    /\ ticks = 0
    /\ timerSeconds = NoTimer
    /\ generating = NoRequest
    /\ nextId = Len(saved) + 1
    /\ uiLast = NoHandler

WordRouteIdle == wordLog = <<>>

OthersIdle ==
    /\ WordBookIdle
    /\ WordRouteIdle
    /\ PageLoaded(<<>>)

Bodies(maxLen) ==
    {[isArray |-> FALSE, items |-> <<>>]}
        \cup {[isArray |-> TRUE, items |-> s] : s \in SeqsOf(SentenceValues, 0, maxLen)}

InitRest ==
    /\ voice \in {DEFAULT_VOICE, "en-XX-NobodyNeural"}
    /\ edgeTtsAvailable \in BOOLEAN
    /\ pc = "request"
    /\ plPc = "none"
    /\ nextTask = 1
    /\ mq = <<>>
    /\ startLog = <<>>
    /\ engineLog = <<>>
    /\ gOut = [j \in Pos |-> "none"]
    /\ tState = [j \in Pos |-> "none"]
    /\ tValue = [j \in Pos |-> NoResult]
    /\ pState = [j \in Pos |-> "none"]
    /\ eState = [j \in Pos |-> "none"]
    /\ eReact = [j \in Pos |-> <<>>]
    /\ executing = <<>>
    /\ races = 0
    /\ raceDone = FALSE
    /\ asReg = FALSE
    /\ asCount = 0
    /\ response = NoResponse
    /\ audioDir = {}

\* the route: parallelLimit(tasks, MAX_CONCURRENT); whatever failures the engine
\* shows during one request are of one kind
Init ==
    /\ sentences \in Bodies(MaxSentences)
    /\ limit = MAX_CONCURRENT
    /\ engineFaults \in {{f} : f \in EngineFailures}
    /\ InitRest
    /\ OthersIdle

\* parallelLimit(tasks, limit) for any limit >= 1
InitPL ==
    /\ sentences \in Bodies(MaxTasks)
    /\ limit \in 1..MaxLimit
    /\ engineFaults = EngineFailures
    /\ InitRest
    /\ OthersIdle

(***************************************************************************)
(* parallelLimit: the synchronous run of the for loop from one await to    *)
(* the next.  st holds the variables the loop writes.                      *)
(***************************************************************************)
\* the comparison of line 141 made strict
TrackingEnabledStrict(lim, nTasks) == lim < nTasks

\* line 141
TrackingEnabled(lim, nTasks) == lim <= nTasks

\* the comparison of line 144 off by one
MustWaitOffByOne(execLen, lim) == execLen > lim

\* line 144
MustWait(execLen, lim) == execLen >= lim

\* Promise.race(executing), line 145: a reaction on every entry, in array order;
\* the reaction of an entry that is already settled is queued at once
RECURSIVE RaceOver(_, _, _)
RaceOver(st, r, k) ==
    IF k > Len(st.executing) THEN st
    ELSE LET e == st.executing[k]
         IN  IF st.eState[e] = "pending"
             THEN RaceOver([st EXCEPT !.eReact[e] = Append(@, r)], r, k + 1)
             ELSE RaceOver([st EXCEPT !.mq = Append(@, Job("raceReact", e, r, st.eState[e]))],
                           r, k + 1)

\* Promise.allSettled(results), line 150: a reaction on every p, in array order
RECURSIVE AllSettledOver(_, _)
AllSettledOver(st, j) ==
    IF j > N THEN st
    ELSE IF st.pState[j] = "pending"
         THEN AllSettledOver(st, j + 1)
         ELSE AllSettledOver([st EXCEPT !.mq = Append(@, Job("asReact", j, 0, st.pState[j]))],
                             j + 1)

\* the tasks taken from the end of the array
TaskAtFromEnd(k) == N + 1 - k

\* line 137, for (const task of tasks): the task the k-th iteration takes
TaskAt(k) == k

\* lines 137-150, from iteration k to the next await
RECURSIVE Loop(_, _)
Loop(st, k) ==
    IF k > N
    THEN \* return Promise.allSettled(results): the async function's promise is
         \* resolved with a promise, which queues a NewPromiseResolveThenableJob
         LET a == AllSettledOver(st, 1)
         IN  [a EXCEPT !.asReg = TRUE,
                       !.mq = Append(@, Job("plThenable", 0, 0, "")),
                       !.plPc = "returned",
                       !.nextTask = k]
    ELSE \* p = Promise.resolve().then(() => task()); results.push(p)
         LET j  == TaskAt(k)
             s1 == [st EXCEPT !.mq = Append(@, Job("start", j, 0, "")),
                              !.pState[j] = "pending"]
         IN  IF TrackingEnabled(limit, N)
             THEN \* e = p.then(...); executing.push(e)
                  LET s2 == [s1 EXCEPT !.eState[j] = "pending",
                                       !.executing = Append(@, j)]
                  IN  IF MustWait(Len(s2.executing), limit)
                      THEN \* await Promise.race(executing)
                           LET r  == s2.races + 1
                               s3 == RaceOver(s2, r, 1)
                           IN  [s3 EXCEPT !.races = r,
                                          !.raceDone = FALSE,
                                          !.plPc = "awaitRace",
                                          !.nextTask = k + 1]
                      ELSE Loop(s2, k + 1)
             ELSE Loop(s1, k + 1)

LoopState ==
    [mq |-> mq, pState |-> pState, eState |-> eState, eReact |-> eReact,
     executing |-> executing, races |-> races, raceDone |-> raceDone, asReg |-> asReg,
     plPc |-> plPc, nextTask |-> nextTask]

SetLoopState(st) ==
    /\ mq' = st.mq
    /\ pState' = st.pState
    /\ eState' = st.eState
    /\ eReact' = st.eReact
    /\ executing' = st.executing
    /\ races' = st.races
    /\ raceDone' = st.raceDone
    /\ asReg' = st.asReg
    /\ plPc' = st.plPc
    /\ nextTask' = st.nextTask

(***************************************************************************)
(* router.post('/generate-batch'): the handler up to its first await.      *)
(***************************************************************************)
ErrorResponse(status, msg) == [NoResponse EXCEPT !.status = status, !.error = msg]

\* the check of line 223 without its length test
ValidSentencesArrayOnly(b) == b.isArray

\* line 223
ValidSentences(b) == b.isArray /\ Len(b.items) # 0

\* the voice check skipped
ValidVoiceAny(v) == TRUE

\* line 228: VOICE_OPTIONS[voice]
ValidVoice(v) == v \in VOICE_OPTIONS

Respond(r) ==
    /\ response' = r
    /\ pc' = "responded"

\* lines 223-225
RejectBadSentences ==
    /\ pc = "request"
    /\ ~ValidSentences(sentences)
    /\ Respond(ErrorResponse(400, ERR_BAD_SENTENCES))
    /\ UNCHANGED <<inputs, others, audioDir, edgeTtsAvailable, plPc, nextTask, mq, startLog, engineLog, gOut,
                   tState, tValue, pState, eState, eReact, executing, races, raceDone,
                   asReg, asCount>>

\* lines 228-233
RejectBadVoice ==
    /\ pc = "request"
    /\ ValidSentences(sentences)
    /\ ~ValidVoice(voice)
    /\ Respond(ErrorResponse(400, ERR_BAD_VOICE))
    /\ UNCHANGED <<inputs, others, audioDir, edgeTtsAvailable, plPc, nextTask, mq, startLog, engineLog, gOut,
                   tState, tValue, pState, eState, eReact, executing, races, raceDone,
                   asReg, asCount>>

\* lines 236-244: checkEdgeTts() runs again and finds no engine
RejectNoEngine ==
    /\ pc = "request"
    /\ ValidSentences(sentences)
    /\ ValidVoice(voice)
    /\ ~edgeTtsAvailable
    /\ Respond(ErrorResponse(500, ERR_NO_ENGINE))
    /\ UNCHANGED <<inputs, others, audioDir, edgeTtsAvailable, plPc, nextTask, mq, startLog, engineLog, gOut,
                   tState, tValue, pState, eState, eReact, executing, races, raceDone,
                   asReg, asCount>>

\* lines 236-282: the engine is available (or checkEdgeTts() finds it now); the
\* tasks are built and parallelLimit runs to its first await; the handler then
\* awaits the promise parallelLimit returned
StartBatch ==
    /\ pc = "request"
    /\ ValidSentences(sentences)
    /\ ValidVoice(voice)
    /\ edgeTtsAvailable' = TRUE
    /\ SetLoopState(Loop(LoopState, 1))
    /\ pc' = "awaitPL"
    /\ UNCHANGED <<inputs, others, audioDir, startLog, engineLog, gOut, tState, tValue, asCount, response>>

(***************************************************************************)
(* generateAudio and the tasks of the batch.                               *)
(***************************************************************************)
batchId == "uuid"

\* lines 88-92
RECURSIVE CleanChars(_)
CleanChars(s) ==
    IF s = <<>> THEN <<>>
    ELSE LET c == Head(s)
         IN  (IF c = "\"" THEN <<"'">>
              ELSE IF c = "\n" THEN <<" ">>
              ELSE IF c = "\r" THEN <<>>
              ELSE <<c>>) \o CleanChars(Tail(s))

CleanText(text) == Trim(CleanChars(text))

\* lines 104-126: what the promise of generateAudio settles to when the engine did o
GenerateAudio(o) ==
    CASE o = "ok"        -> [state |-> "fulfilled", message |-> NoError]
      [] o = "emptyfile" -> [state |-> "rejected", message |-> ERR_FILE_EMPTY]
      [] o = "nofile"    -> [state |-> "rejected", message |-> ERR_FILE_MISSING]
      [] o = "exit"      -> [state |-> "rejected", message |-> ERR_EXEC_EXIT]
      [] o = "timeout"   -> [state |-> "rejected", message |-> ERR_EXEC_TIMEOUT]
      [] o = "cleanEmpty" -> [state |-> "rejected", message |-> ERR_TEXT_EMPTY]

\* line 250: the index the task of position j closes over
TaskIndex(j) == j - 1

\* line 257
FileName(i) ==
    <<batchId, "_">> \o PadStart(ToDecimal(i + 1), PadWidth, "0") \o <<".mp3">>

\* the engine writes every file under the one name word.mp3
WriteMediaOneName(dir, name, o, by) ==
    IF o \in {"ok", "emptyfile"}
    THEN {f \in dir : f.name # <<"word.mp3">>}
             \cup {[name |-> <<"word.mp3">>, empty |-> (o = "emptyfile"), by |-> by]}
    ELSE dir

\* lines 101-122, edge-tts --write-media "${outputPath}": the file the engine
\* leaves at outputPath (a file with audio, an empty file, or none), written
\* over whatever was there; by records for whom it was written
WriteMedia(dir, name, o, by) ==
    IF o \in {"ok", "emptyfile"}
    THEN {f \in dir : f.name # name}
             \cup {[name |-> name, empty |-> (o = "emptyfile"), by |-> by]}
    ELSE dir

\* line 265
AudioPath(i) == <<"/audio/">> \o FileName(i)

\* the text taken without trim()
TaskTextUntrimmed(sentence) == sentence.chars

\* line 252
TaskText(sentence) == Trim(sentence.chars)

\* line 253: !text
IsBlank(text) == text = <<>>

\* line 254
EmptyTextResult(i) ==
    [index |-> i, text |-> Str(<<>>), audioPath |-> NULL, success |-> FALSE,
     error |-> ERR_EMPTY_TEXT]

\* lines 262-267
SuccessResult(i, text) ==
    [index |-> i, text |-> Str(text), audioPath |-> AudioPath(i), success |-> TRUE,
     error |-> NoError]

\* lines 270-276
FailureResult(i, text, msg) ==
    [index |-> i, text |-> Str(text), audioPath |-> NULL, success |-> FALSE, error |-> msg]

\* the command run a second time
ExecSyncTwice(log, j) == log \o <<j, j>>

\* lines 104-108: execSync(command) runs once for the job
ExecSync(log, j) == Append(log, j)

\* child_process.exec: the call returns while the command still runs
ExecReturnsEarly(o) == "none"

\* lines 104-108: execSync blocks until the command has ended, so what the
\* engine did is known when the call returns
ExecSyncReturns(o) == o

Dequeue == mq' = Tail(mq)

HeadIs(t) == mq # <<>> /\ Head(mq).t = t

\* line 138, the reaction () => task(), and the task's run to its first await
\* (lines 251-261).  execSync runs inside this job.
StartTask ==
    /\ HeadIs("start")
    /\ LET j        == Head(mq).j
           sentence == sentences.items[j]
           i        == TaskIndex(j)
       IN  /\ startLog' = Append(startLog, j)
           /\ IF ~sentence.isString
              THEN \* sentence.trim() throws: the promise of task() is rejected
                   /\ tState' = [tState EXCEPT ![j] = "rejected"]
                   /\ tValue' = [tValue EXCEPT ![j] = [NoResult EXCEPT !.error = MSG_TRIM_TYPEERROR]]
                   /\ mq' = Append(Tail(mq), Job("thenable", j, 0, ""))
                   /\ UNCHANGED <<gOut, engineLog, audioDir>>
              ELSE IF IsBlank(TaskText(sentence))
              THEN /\ tState' = [tState EXCEPT ![j] = "fulfilled"]
                   /\ tValue' = [tValue EXCEPT ![j] = EmptyTextResult(i)]
                   /\ mq' = Append(Tail(mq), Job("thenable", j, 0, ""))
                   /\ UNCHANGED <<gOut, engineLog, audioDir>>
              ELSE IF CleanText(TaskText(sentence)) = <<>>
              THEN \* generateAudio rejects before it runs the engine (lines 94-97)
                   /\ gOut' = [gOut EXCEPT ![j] = "cleanEmpty"]
                   /\ tState' = [tState EXCEPT ![j] = "pending"]
                   /\ mq' = Tail(mq) \o <<Job("resume", j, 0, ""), Job("thenable", j, 0, "")>>
                   /\ UNCHANGED <<tValue, engineLog, audioDir>>
              ELSE \E o \in {"ok"} \cup engineFaults :
                   /\ gOut' = [gOut EXCEPT ![j] = ExecSyncReturns(o)]
                   /\ engineLog' = ExecSync(engineLog, j)
                   /\ audioDir' = WriteMedia(audioDir, FileName(i), o, j)
                   /\ tState' = [tState EXCEPT ![j] = "pending"]
                   /\ mq' = Tail(mq) \o <<Job("resume", j, 0, ""), Job("thenable", j, 0, "")>>
                   /\ UNCHANGED tValue
    /\ UNCHANGED <<inputs, others, edgeTtsAvailable, pc, plPc, nextTask, pState, eState, eReact,
                   executing, races, raceDone, asReg, asCount, response>>

\* lines 261-277: the task after await generateAudio(...)
TaskResume ==
    /\ HeadIs("resume")
    /\ LET j    == Head(mq).j
           i    == TaskIndex(j)
           text == TaskText(sentences.items[j])
           g    == GenerateAudio(gOut[j])
       IN  /\ tState' = [tState EXCEPT ![j] = "fulfilled"]
           /\ tValue' = [tValue EXCEPT ![j] =
                            IF g.state = "fulfilled" THEN SuccessResult(i, text)
                            ELSE FailureResult(i, text, g.message)]
    /\ Dequeue
    /\ UNCHANGED <<inputs, others, audioDir, edgeTtsAvailable, pc, plPc, nextTask, startLog, engineLog, gOut,
                   pState, eState, eReact, executing, races, raceDone, asReg, asCount,
                   response>>

\* p was resolved with the promise of task(): NewPromiseResolveThenableJob
ResolveThenable ==
    /\ HeadIs("thenable")
    /\ LET j == Head(mq).j
       IN  /\ tState[j] \in {"fulfilled", "rejected"}
           /\ mq' = Append(Tail(mq), Job("adopt", j, 0, tState[j]))
    /\ UNCHANGED <<inputs, others, audioDir, edgeTtsAvailable, pc, plPc, nextTask, startLog, engineLog, gOut,
                   tState, tValue, pState, eState, eReact, executing, races, raceDone,
                   asReg, asCount, response>>

\* p settles as the promise of task() did; its reactions are queued in the order
\* they were registered: e's (line 142), then allSettled's (line 150)
AdoptTask ==
    /\ HeadIs("adopt")
    /\ LET j   == Head(mq).j
           how == Head(mq).how
       IN  /\ pState' = [pState EXCEPT ![j] = how]
           /\ mq' = Tail(mq)
                    \o (IF eState[j] # "none" THEN <<Job("eReact", j, 0, how)>> ELSE <<>>)
                    \o (IF asReg THEN <<Job("asReact", j, 0, how)>> ELSE <<>>)
    /\ UNCHANGED <<inputs, others, audioDir, edgeTtsAvailable, pc, plPc, nextTask, startLog, engineLog, gOut,
                   tState, tValue, eState, eReact, executing, races, raceDone, asReg,
                   asCount, response>>

(***************************************************************************)
(* parallelLimit: the reactions on e, on the race and on allSettled.       *)
(***************************************************************************)
\* Array.prototype.indexOf, 1-based, 0 when absent
RECURSIVE IndexFrom(_, _, _)
IndexFrom(arr, x, k) ==
    IF k > Len(arr) THEN 0
    ELSE IF arr[k] = x THEN k ELSE IndexFrom(arr, x, k + 1)

IndexOf(arr, x) == IndexFrom(arr, x, 1)

\* the callback of line 142 without the splice
SpliceOutNothing(arr, x) == arr

\* arr.splice(arr.indexOf(x), 1): indexOf's -1 removes the last element
SpliceOut(arr, x) ==
    LET k == IF IndexOf(arr, x) = 0 THEN Len(arr) ELSE IndexOf(arr, x)
    IN  IF arr = <<>> THEN <<>>
        ELSE SubSeq(arr, 1, k - 1) \o SubSeq(arr, k + 1, Len(arr))

RaceJobs(rs, j, how) == [k \in 1..Len(rs) |-> Job("raceReact", j, rs[k], how)]

\* line 142: e = p.then(() => executing.splice(executing.indexOf(e), 1)).
\* The callback runs only when p is fulfilled; a rejected p rejects e and
\* leaves its entry in executing.
ExecutingReaction ==
    /\ HeadIs("eReact")
    /\ LET j   == Head(mq).j
           how == Head(mq).how
       IN  /\ executing' = IF how = "fulfilled" THEN SpliceOut(executing, j) ELSE executing
           /\ eState' = [eState EXCEPT ![j] = how]
           /\ eReact' = [eReact EXCEPT ![j] = <<>>]
           /\ mq' = Tail(mq) \o RaceJobs(eReact[j], j, how)
    /\ UNCHANGED <<inputs, others, audioDir, edgeTtsAvailable, pc, plPc, nextTask, startLog, engineLog, gOut,
                   tState, tValue, pState, races, raceDone, asReg, asCount, response>>

\* line 145: the first entry to settle settles the race, the later ones do nothing;
\* settling the race queues the continuation of the await
RaceReaction ==
    /\ HeadIs("raceReact")
    /\ LET job == Head(mq)
       IN  IF job.r = races /\ ~raceDone
           THEN /\ raceDone' = TRUE
                /\ mq' = Append(Tail(mq), Job("loopResume", job.j, job.r, job.how))
           ELSE /\ Dequeue
                /\ UNCHANGED raceDone
    /\ UNCHANGED <<inputs, others, audioDir, edgeTtsAvailable, pc, plPc, nextTask, startLog, engineLog, gOut,
                   tState, tValue, pState, eState, eReact, executing, races, asReg,
                   asCount, response>>

\* line 145 after the await: the loop goes on, or the rejection is thrown out of
\* parallelLimit and rejects the promise the handler awaits (line 282)
LoopResume ==
    /\ HeadIs("loopResume")
    /\ LET job == Head(mq)
       IN  IF job.how = "rejected"
           THEN /\ plPc' = "threw"
                /\ mq' = Append(Tail(mq), Job("routeResume", job.j, 0, "rejected"))
                /\ UNCHANGED <<pState, eState, eReact, executing, races, raceDone, asReg,
                               nextTask>>
           ELSE SetLoopState(Loop([LoopState EXCEPT !.mq = Tail(mq)], nextTask))
    /\ UNCHANGED <<inputs, others, audioDir, edgeTtsAvailable, pc, startLog, engineLog, gOut, tState, tValue,
                   asCount, response>>

\* line 150: allSettled records one element; with the last one its promise is
\* fulfilled, and the promise of parallelLimit, once it follows it, too
AllSettledReaction ==
    /\ HeadIs("asReact")
    /\ asCount' = asCount + 1
    /\ mq' = Tail(mq)
             \o (IF asCount + 1 = N /\ plPc = "adopting"
                 THEN <<Job("plAdopt", 0, 0, "fulfilled")>> ELSE <<>>)
    /\ UNCHANGED <<inputs, others, audioDir, edgeTtsAvailable, pc, plPc, nextTask, startLog, engineLog, gOut,
                   tState, tValue, pState, eState, eReact, executing, races, raceDone,
                   asReg, response>>

\* line 150, return of a promise from an async function: NewPromiseResolveThenableJob
PLThenable ==
    /\ HeadIs("plThenable")
    /\ plPc' = "adopting"
    /\ mq' = Tail(mq)
             \o (IF asCount = N THEN <<Job("plAdopt", 0, 0, "fulfilled")>> ELSE <<>>)
    /\ UNCHANGED <<inputs, others, audioDir, edgeTtsAvailable, pc, nextTask, startLog, engineLog, gOut,
                   tState, tValue, pState, eState, eReact, executing, races, raceDone,
                   asReg, asCount, response>>

\* the promise of parallelLimit is fulfilled: the handler's await (line 282) goes on
PLAdopt ==
    /\ HeadIs("plAdopt")
    /\ plPc' = "fulfilled"
    /\ mq' = Append(Tail(mq), Job("routeResume", 0, 0, "fulfilled"))
    /\ UNCHANGED <<inputs, others, audioDir, edgeTtsAvailable, pc, nextTask, startLog, engineLog, gOut,
                   tState, tValue, pState, eState, eReact, executing, races, raceDone,
                   asReg, asCount, response>>

(***************************************************************************)
(* router.post('/generate-batch') after await parallelLimit(...).          *)
(***************************************************************************)
\* the array Promise.allSettled resolves to, one element per entry of results
SettledResults == [j \in Pos |-> [status |-> pState[j], value |-> tValue[j]]]

\* lines 285-296
MapSettled(settled, j) ==
    IF settled[j].status = "fulfilled"
    THEN settled[j].value
    ELSE [index |-> j - 1, text |-> sentences.items[j], audioPath |-> NULL,
          success |-> FALSE,
          error |-> IF settled[j].value.error # NoError THEN settled[j].value.error
                    ELSE ERR_UNKNOWN]

\* the rejected elements dropped instead of mapped
MapResultsFulfilledOnly(settled) ==
    LET keep == SelectSeq([j \in 1..Len(settled) |-> j],
                          LAMBDA j : settled[j].status = "fulfilled")
    IN  [k \in 1..Len(keep) |-> settled[keep[k]].value]

MapResults(settled) == [j \in 1..Len(settled) |-> MapSettled(settled, j)]

\* line 299: Array.prototype.sort with (a, b) => a.index - b.index, a stable sort
RECURSIVE InsertByIndex(_, _)
InsertByIndex(sorted, x) ==
    IF sorted = <<>> THEN <<x>>
    ELSE IF sorted[Len(sorted)].index - x.index <= 0 THEN Append(sorted, x)
    ELSE Append(InsertByIndex(SubSeq(sorted, 1, Len(sorted) - 1), x), sorted[Len(sorted)])

RECURSIVE SortFrom(_, _, _)
SortFrom(arr, k, acc) ==
    IF k > Len(arr) THEN acc ELSE SortFrom(arr, k + 1, InsertByIndex(acc, arr[k]))

\* the comparator reversed: (a, b) => b.index - a.index
RECURSIVE InsertByIndexDesc(_, _)
InsertByIndexDesc(sorted, x) ==
    IF sorted = <<>> THEN <<x>>
    ELSE IF x.index - sorted[Len(sorted)].index <= 0 THEN Append(sorted, x)
    ELSE Append(InsertByIndexDesc(SubSeq(sorted, 1, Len(sorted) - 1), x),
                sorted[Len(sorted)])

RECURSIVE SortDescFrom(_, _, _)
SortDescFrom(arr, k, acc) ==
    IF k > Len(arr) THEN acc ELSE SortDescFrom(arr, k + 1, InsertByIndexDesc(acc, arr[k]))

SortByIndexDescending(arr) == SortDescFrom(arr, 1, <<>>)

SortByIndex(arr) == SortFrom(arr, 1, <<>>)

\* every result counted, whatever its success flag
CountAllResults(results) == Len(results)

\* line 301
CountSuccess(results) == Cardinality({k \in 1..Len(results) : results[k].success})

\* lines 304-310
BatchResponse(results) ==
    [status |-> 200, error |-> NoError, message |-> NoError, total |-> Len(sentences.items),
     successCount |-> CountSuccess(results), results |-> results]

\* lines 311-314
BatchFailedResponse(msg) ==
    [NoResponse EXCEPT !.status = 500, !.error = ERR_BATCH_FAILED, !.message = msg]

\* lines 282-314
RouteResume ==
    /\ HeadIs("routeResume")
    /\ pc = "awaitPL"
    /\ LET job == Head(mq)
       IN  IF job.how = "fulfilled"
           THEN Respond(BatchResponse(SortByIndex(MapResults(SettledResults))))
           ELSE Respond(BatchFailedResponse(tValue[job.j].error))
    /\ Dequeue
    /\ UNCHANGED <<inputs, others, audioDir, edgeTtsAvailable, plPc, nextTask, startLog, engineLog, gOut,
                   tState, tValue, pState, eState, eReact, executing, races, raceDone,
                   asReg, asCount>>

(***************************************************************************)
(* The specifications.                                                     *)
(***************************************************************************)
Next ==
    \/ RejectBadSentences
    \/ RejectBadVoice
    \/ RejectNoEngine
    \/ StartBatch
    \/ StartTask
    \/ TaskResume
    \/ ResolveThenable
    \/ AdoptTask
    \/ ExecutingReaction
    \/ RaceReaction
    \/ LoopResume
    \/ AllSettledReaction
    \/ PLThenable
    \/ PLAdopt
    \/ RouteResume

\* POST /api/tts/generate-batch
Spec == Init /\ [][Next]_vars

\* the same handler calling parallelLimit(tasks, limit) with any limit
SpecPL == InitPL /\ [][Next]_vars

\* the event loop runs every job of the microtask queue, and the handler runs
\* on the request: no enabled step is put off forever
SpecPLFair == InitPL /\ [][Next]_vars /\ WF_vars(Next)

TypeOK ==
    /\ pc \in {"request", "awaitPL", "responded"}
    /\ plPc \in {"none", "awaitRace", "returned", "adopting", "fulfilled", "threw"}
    /\ \A j \in Pos : pState[j] \in {"none", "pending", "fulfilled", "rejected"}

(***************************************************************************)
(* The wordbook routes (src/unnamed/part_004) and the WordBook view.  Every  *)
(* handler is synchronous, so a request is one step.  An entry keeps the     *)
(* fields word, meaning and addedAt; phonetic, source and audioPath are      *)
(* carried like meaning.                                                     *)
(***************************************************************************)
batchVars == <<inputs, edgeTtsAvailable, pc, plPc, nextTask, mq, startLog, engineLog, gOut,
               tState, tValue, pState, eState, eReact, executing, races, raceDone, asReg,
               asCount, response>>

\* what the wordbook routes leave alone
notWB == <<batchVars, audioDir, wordLog, uiVars>>

\* what POST /api/tts/generate-word leaves alone
notWord == <<batchVars, wbVars, uiVars>>

\* what the handlers of the page leave alone
notUI == <<batchVars, audioDir, wbVars, wordLog>>

\* no batch request has been made
BatchIdle ==
    /\ sentences = [isArray |-> FALSE, items |-> <<>>]
    /\ limit = MAX_CONCURRENT
    /\ engineFaults = EngineFailures
    /\ InitRest
    /\ voice = DEFAULT_VOICE
    /\ edgeTtsAvailable

UpperLetters ==
    <<"A", "B", "C", "D", "E", "F", "G", "H", "I", "J", "K", "L", "M", "N", "O", "P", "Q",
      "R", "S", "T", "U", "V", "W", "X", "Y", "Z">>

LowerLetters ==
    <<"a", "b", "c", "d", "e", "f", "g", "h", "i", "j", "k", "l", "m", "n", "o", "p", "q",
      "r", "s", "t", "u", "v", "w", "x", "y", "z">>

LowerChar(c) ==
    IF \E k \in 1..Len(UpperLetters) : UpperLetters[k] = c
    THEN LowerLetters[CHOOSE k \in 1..Len(UpperLetters) : UpperLetters[k] = c]
    ELSE c

\* String.prototype.toLowerCase
ToLowerCase(s) == [k \in 1..Len(s) |-> LowerChar(s[k])]

\* a value missing from the request (undefined)
Undefined == NonString

\* !x is false: a string that is not empty
Truthy(x) == x.isString /\ x.chars # <<>>

WordInputs == {Undefined, Str(<<"h", "i">>), Str(<<"H", "i">>), Str(<<" ", "h", "i">>),
               Str(<<"g", "o">>)}

MeaningInputs == {Undefined, Str(<<"m">>), Str(<<"n", " ">>)}

ImportItems == {[word |-> Str(<<"h", "i">>), meaning |-> Str(<<"m">>)],
                [word |-> Str(<<"H", "i", " ">>), meaning |-> Str(<<"n">>)],
                [word |-> Str(<<"g", "o">>), meaning |-> Undefined]}

ImportInputs ==
    {[isArray |-> FALSE, items |-> <<>>]}
        \cup {[isArray |-> TRUE, items |-> s] : s \in SeqsOf(ImportItems, 1, MaxImport)}

\* lines 200-208
ReadWordBook == wordbook

\* findIndex(w => w.word.toLowerCase() === word.toLowerCase()), 1-based, 0 for -1
RECURSIVE FindIndexFrom(_, _, _)
FindIndexFrom(list, word, k) ==
    IF k > Len(list) THEN 0
    ELSE IF ToLowerCase(list[k].word) = ToLowerCase(word) THEN k
    ELSE FindIndexFrom(list, word, k + 1)

\* the comparison without toLowerCase
FindIndexExact(list, word) ==
    IF \E k \in 1..Len(list) : list[k].word = word
    THEN CHOOSE k \in 1..Len(list) :
             list[k].word = word /\ \A j \in 1..(k - 1) : list[j].word # word
    ELSE 0

FindIndex(list, word) == FindIndexFrom(list, word, 1)

\* the answer, with the request it answers (word, meaning) and the stored
\* list the request found
WbRespond(op, status, error, word, meaning) ==
    wbResponse' = [NoWbResponse EXCEPT !.op = op, !.status = status, !.error = error,
                                       !.word = word, !.meaning = meaning,
                                       !.before = wordbook]

\* lines 304-338: POST /api/wordbook
PostWord(word, meaning) ==
    /\ clock < MaxRequests
    /\ clock' = clock + 1
    /\ IF ~Truthy(word) \/ ~Truthy(meaning)
       THEN /\ WbRespond("post", 400, ERR_WORD_REQUIRED, word, meaning)
            /\ UNCHANGED wordbook
       ELSE LET list     == ReadWordBook
                existing == FindIndex(list, word.chars)
                newWord  == [word |-> Trim(word.chars), meaning |-> Trim(meaning.chars),
                             addedAt |-> clock + 1]
            IN  /\ wordbook' = IF existing # 0 THEN [list EXCEPT ![existing] = newWord]
                               ELSE Append(list, newWord)
                /\ WbRespond("post", 200, NoError, word, meaning)
    /\ UNCHANGED <<backups, words, notWB>>

\* lines 344-370: PUT /api/wordbook/:word
PutWord(target, meaning) ==
    /\ clock < MaxRequests
    /\ clock' = clock + 1
    /\ LET list  == ReadWordBook
           index == FindIndex(list, target.chars)
       IN  IF index = 0
           THEN /\ WbRespond("put", 404, ERR_NO_SUCH_WORD, target, meaning)
                /\ UNCHANGED wordbook
           ELSE /\ wordbook' = IF meaning.isString
                               THEN [list EXCEPT ![index].meaning = meaning.chars]
                               ELSE list
                /\ WbRespond("put", 200, NoError, target, meaning)
    /\ UNCHANGED <<backups, words, notWB>>

\* lines 379-403: DELETE /api/wordbook/:word
DeleteWord(target) ==
    /\ clock < MaxRequests
    /\ clock' = clock + 1
    /\ LET list  == ReadWordBook
           index == FindIndex(list, target.chars)
       IN  IF index = 0
           THEN /\ WbRespond("delete", 404, ERR_NO_SUCH_WORD, target, Undefined)
                /\ UNCHANGED wordbook
           ELSE /\ wordbook' = SubSeq(list, 1, index - 1) \o SubSeq(list, index + 1, Len(list))
                /\ WbRespond("delete", 200, NoError, target, Undefined)
    /\ UNCHANGED <<backups, words, notWB>>

\* lines 468-491: importWords.forEach(...) from item k on
RECURSIVE ImportFrom(_, _, _, _)
ImportFrom(current, items, k, now) ==
    IF k > Len(items) THEN current
    ELSE LET item == items[k]
         IN  IF ~Truthy(item.word) \/ ~Truthy(item.meaning)
             THEN ImportFrom(current, items, k + 1, now)
             ELSE LET existing == FindIndex(current, item.word.chars)
                      wordData == [word |-> Trim(item.word.chars),
                                   meaning |-> Trim(item.meaning.chars), addedAt |-> now]
                  IN  ImportFrom(IF existing # 0 THEN [current EXCEPT ![existing] = wordData]
                                 ELSE Append(current, wordData),
                                 items, k + 1, now)

\* lines 458-505: POST /api/wordbook/import
ImportWords(importWords, merge) ==
    /\ clock < MaxRequests
    /\ clock' = clock + 1
    /\ IF ~importWords.isArray
       THEN /\ WbRespond("import", 400, ERR_BAD_IMPORT, Undefined, Undefined)
            /\ UNCHANGED wordbook
       ELSE /\ wordbook' = ImportFrom(IF merge THEN ReadWordBook ELSE <<>>,
                                      importWords.items, 1, clock + 1)
            /\ WbRespond("import", 200, NoError, Undefined, Undefined)
    /\ UNCHANGED <<backups, words, notWB>>

\* lines 511-535: POST /api/wordbook/backup
PostBackup ==
    /\ clock < MaxRequests
    /\ clock' = clock + 1
    /\ backups' = Append(backups, [at |-> clock + 1, words |-> ReadWordBook])
    /\ WbRespond("backup", 200, NoError, Undefined, Undefined)
    /\ UNCHANGED <<wordbook, words, notWB>>

\* part_004 lines 221-232, GET /api/wordbook, called by loadWords of the
\* WordBook view (SentenceList.tsx lines 848-861), which shows data.words as
\* they come (line 1172)
LoadWords ==
    /\ clock < MaxRequests
    /\ clock' = clock + 1
    /\ wbResponse' = [NoWbResponse EXCEPT !.op = "get", !.status = 200, !.words = ReadWordBook,
                                          !.before = wordbook]
    /\ words' = ReadWordBook
    /\ UNCHANGED <<wordbook, backups, notWB>>

NextWB ==
    \/ \E word \in WordInputs : \E meaning \in MeaningInputs : PostWord(word, meaning)
    \/ \E target \in WordInputs \ {Undefined} : \E meaning \in MeaningInputs :
          PutWord(target, meaning)
    \/ \E target \in WordInputs \ {Undefined} : DeleteWord(target)
    \/ \E importWords \in ImportInputs : \E merge \in BOOLEAN : ImportWords(importWords, merge)
    \/ PostBackup
    \/ LoadWords

InitWB ==
    /\ BatchIdle
    /\ audioDir = {}
    /\ OthersIdle

\* the wordbook routes serving any sequence of requests
SpecWB == InitWB /\ [][NextWB]_vars

(***************************************************************************)
(* router.post('/generate-word'), ttsRoutes.js lines 321-356.  execSync    *)
(* blocks, and the handler's only await is behind it, so a request is one  *)
(* step.                                                                   *)
(***************************************************************************)
WordRequestInputs ==
    {Undefined, Str(<<"h", "i">>), Str(<<"H", "i">>), Str(<<"h", "-", "i">>),
     Str(<<"h", " ", "i">>), Str(<<" ">>)}

Digits == {"0", "1", "2", "3", "4", "5", "6", "7", "8", "9"}

\* the class [a-z0-9]
AlphaNumeric == {LowerLetters[n] : n \in 1..Len(LowerLetters)} \cup Digits

\* line 330: word.toLowerCase().replace(/[^a-z0-9]/g, '_')
SafeWord(word) ==
    [k \in 1..Len(word) |->
        IF LowerChar(word[k]) \in AlphaNumeric THEN LowerChar(word[k])
        ELSE "_"]

\* line 331
WordFileName(word) == <<"word_">> \o SafeWord(word) \o <<".mp3">>

\* the file never found
ExistsSyncNever(dir, name) == FALSE

\* line 335: fs.existsSync(outputPath)
ExistsSync(dir, name) == \E f \in dir : f.name = name

WordAnswer(word, status, name, cached, invoked) ==
    [word |-> word, status |-> status,
     audioPath |-> IF status = 200 THEN <<"/audio/">> \o name ELSE NULL,
     cached |-> cached, invoked |-> invoked]

\* lines 321-356
GenerateWord(word) ==
    /\ Len(wordLog) < MaxWordRequests
    /\ IF ~Truthy(word)
       THEN /\ wordLog' = Append(wordLog, WordAnswer(word, 400, NULL, FALSE, FALSE))
            /\ UNCHANGED audioDir
       ELSE LET name == WordFileName(word.chars)
            IN  IF ExistsSync(audioDir, name)
                THEN /\ wordLog' = Append(wordLog, WordAnswer(word, 200, name, TRUE, FALSE))
                     /\ UNCHANGED audioDir
                ELSE IF CleanText(word.chars) = <<>>
                THEN \* generateAudio rejects before it runs the engine (lines 94-97)
                     /\ wordLog' = Append(wordLog, WordAnswer(word, 500, NULL, FALSE, FALSE))
                     /\ UNCHANGED audioDir
                ELSE \E o \in {"ok"} \cup engineFaults :
                     /\ audioDir' = WriteMedia(audioDir, name, o, word)
                     /\ wordLog' = Append(wordLog,
                            WordAnswer(word,
                                       IF GenerateAudio(o).state = "fulfilled" THEN 200 ELSE 500,
                                       name, FALSE, TRUE))
    /\ UNCHANGED notWord

NextWord == \E word \in WordRequestInputs : GenerateWord(word)

InitWord ==
    /\ BatchIdle
    /\ audioDir = {}
    /\ OthersIdle

\* POST /api/tts/generate-word serving any sequence of requests
SpecWord == InitWord /\ [][NextWord]_vars

(***************************************************************************)
(* The page: SentenceList (frontend/src/components/SentenceList.tsx), the  *)
(* AudioPlayer it renders and the player hook useAudioPlayer.  Every       *)
(* handler, timer callback and player event runs to completion and is      *)
(* followed by the render and its effects, so each is one step.  The refs  *)
(* isAutoPlayRef, sentenceItemsRef and currentPlayingIndexRef are set from *)
(* the state by the effects of lines 198-208 and are read here as the      *)
(* state.  An item keeps id, hasAudio, text (a token; NoText for a blank    *)
(* text) and spoken, the text its audio file speaks (audioPath is set and  *)
(* cleared with hasAudio and is one path per item, named here by the id);  *)
(* the edit form, the expanded notes and localStorage are left out, and so *)
(* are the player's own buttons.  With the player's loop switch on, onend does not *)
(* call the callback: that is an audio that does not end.                  *)
(***************************************************************************)
\* the text '' (and every text that trim() leaves empty)
NoText == 0

\* an item the page has saved: its text is named by its id, its audio, if it
\* has one, speaks that text
Item(id, hasAudio) ==
    [id |-> id, hasAudio |-> hasAudio, text |-> id,
     spoken |-> IF hasAudio THEN id ELSE NoText]

\* lines 432-438 and 458-464: the item of an inserted sentence
NewItem(id) == [id |-> id, hasAudio |-> FALSE, text |-> NoText, spoken |-> NoText]

\* the lists localStorage can hold: ids 1..n, any flags
SavedLists ==
    UNION {{[k \in 1..n |-> Item(k, flags[k])] : flags \in [1..n -> BOOLEAN]} : n \in 0..MaxItems}

\* line 511
HasAnyAudio(items) == \E k \in 1..Len(items) : items[k].hasAudio

\* lines 507-509: sentenceItems[currentPlayingIndex]?.audioPath
CurrentAudioPath(items, index) ==
    IF index = NullIndex \/ index >= Len(items) THEN NoSrc
    ELSE IF items[index + 1].hasAudio THEN items[index + 1].id
    ELSE NoSrc

\* the player after the render that follows a handler: AudioPlayer is mounted
\* while some item has audio (line 587) and its hook unloads the audio when it
\* is unmounted; the effect of AudioPlayer.tsx lines 43-47 loads and plays src
\* when src has changed (or the player has just been mounted) and is not null
AfterRender(items0, index0, items1, index1, playing0) ==
    LET src0 == CurrentAudioPath(items0, index0)
        src1 == CurrentAudioPath(items1, index1)
    IN  IF ~HasAnyAudio(items1) THEN NoSrc
        ELSE IF src1 # NoSrc /\ (src1 # src0 \/ ~HasAnyAudio(items0)) THEN src1
        ELSE playing0

Render(items1, index1) ==
    /\ sentenceItems' = items1
    /\ currentPlayingIndex' = index1
    /\ playing' = AfterRender(sentenceItems, currentPlayingIndex, items1, index1, playing)

\* the step is a click or a countdown callback: not a step of the playback
Handled == uiLast' = NoHandler

\* lines 272-296: startPlayTimer(seconds)
StartPlayTimer(seconds) ==
    /\ playTimer' = seconds
    /\ playTimerRef' = TRUE
    /\ ticks' = 0
    /\ timerSeconds' = seconds

\* lines 319-325, without setHasCustomTimer
ClearPlayTimer ==
    /\ playTimer' = NoTimer
    /\ playTimerRef' = FALSE
    /\ ticks' = 0
    /\ timerSeconds' = NoTimer

\* lines 193-195; the button is rendered for an item with audio
HandlePlaySentence(index) ==
    /\ index < Len(sentenceItems)
    /\ sentenceItems[index + 1].hasAudio
    /\ Render(sentenceItems, index)
    /\ Handled
    /\ UNCHANGED <<isAutoPlay, playTimer, hasCustomTimer, playTimerRef, timeouts, ticks, timerSeconds,
                   nextId, generating, notUI>>

\* findIndex(item => item.hasAudio), 0-based, NullIndex for -1
RECURSIVE FirstWithAudioFrom(_, _)
FirstWithAudioFrom(items, k) ==
    IF k >= Len(items) THEN NullIndex
    ELSE IF items[k + 1].hasAudio THEN k
    ELSE FirstWithAudioFrom(items, k + 1)

\* the default countdown started whatever the flag
NeedsDefaultTimerAlways(custom) == TRUE

\* line 306: if (!hasCustomTimer)
NeedsDefaultTimer(custom) == ~custom

\* lines 299-310; the button is disabled while isAutoPlay
HandlePlayAll ==
    /\ ~isAutoPlay
    /\ LET firstWithAudio == FirstWithAudioFrom(sentenceItems, 0)
       IN  IF firstWithAudio # NullIndex
           THEN /\ isAutoPlay' = TRUE
                /\ Render(sentenceItems, firstWithAudio)
                /\ IF NeedsDefaultTimer(hasCustomTimer) THEN StartPlayTimer(TWO_HOURS)
                   ELSE UNCHANGED <<playTimer, playTimerRef, ticks, timerSeconds>>
           ELSE UNCHANGED <<isAutoPlay, sentenceItems, currentPlayingIndex, playing,
                            playTimer, playTimerRef, ticks, timerSeconds>>
    /\ uiLast' = [NoHandler EXCEPT !.h = "playAll", !.index0 = currentPlayingIndex,
                                   !.auto0 = isAutoPlay, !.timer0 = playTimer,
                                   !.custom0 = hasCustomTimer]
    /\ UNCHANGED <<hasCustomTimer, timeouts, nextId, generating, notUI>>

\* lines 644-653: the checkbox
ToggleAutoPlay ==
    /\ HasAnyAudio(sentenceItems)
    /\ isAutoPlay' = ~isAutoPlay
    /\ IF ~isAutoPlay /\ playTimer = NoTimer THEN StartPlayTimer(TWO_HOURS)
       ELSE UNCHANGED <<playTimer, playTimerRef, ticks, timerSeconds>>
    /\ Render(sentenceItems, currentPlayingIndex)
    /\ Handled
    /\ UNCHANGED <<hasCustomTimer, timeouts, nextId, generating, notUI>>

\* lines 313-316
HandleSetPlayTimer(minutes) ==
    /\ HasAnyAudio(sentenceItems)
    /\ hasCustomTimer' = TRUE
    /\ StartPlayTimer(minutes * 60)
    /\ Render(sentenceItems, currentPlayingIndex)
    /\ Handled
    /\ UNCHANGED <<isAutoPlay, timeouts, nextId, generating, notUI>>

\* lines 319-326; the button is rendered while playTimer is not null
HandleClearPlayTimer ==
    /\ HasAnyAudio(sentenceItems)
    /\ playTimer # NoTimer
    /\ ClearPlayTimer
    /\ hasCustomTimer' = FALSE
    /\ Render(sentenceItems, currentPlayingIndex)
    /\ Handled
    /\ UNCHANGED <<isAutoPlay, timeouts, nextId, generating, notUI>>

\* lines 329-333
HandleStopAll ==
    /\ HasAnyAudio(sentenceItems)
    /\ isAutoPlay' = FALSE
    /\ Render(sentenceItems, NullIndex)
    /\ ClearPlayTimer
    /\ hasCustomTimer' = FALSE
    /\ uiLast' = [NoHandler EXCEPT !.h = "stopAll"]
    /\ UNCHANGED <<timeouts, nextId, generating, notUI>>

\* the test of line 282 with the time running out one second late
ExpiresAtZero(prev) == prev = NoTimer \/ prev <= 0

\* line 282: prev === null || prev <= 1
Expires(prev) == prev = NoTimer \/ prev <= 1

\* lines 280-295: the callback of the countdown interval, one second after
\* the interval was set or ran last
Tick ==
    /\ playTimerRef
    /\ ticks < MaxTicks
    /\ ticks' = ticks + 1
    /\ IF Expires(playTimer)
       THEN /\ playTimer' = NoTimer
            /\ playTimerRef' = FALSE
            /\ isAutoPlay' = FALSE
            /\ Render(sentenceItems, NullIndex)
            /\ hasCustomTimer' = FALSE
       ELSE /\ playTimer' = playTimer - 1
            /\ Render(sentenceItems, currentPlayingIndex)
            /\ UNCHANGED <<playTimerRef, isAutoPlay, hasCustomTimer>>
    /\ uiLast' = [NoHandler EXCEPT !.h = "tick", !.index0 = currentPlayingIndex,
                                   !.auto0 = isAutoPlay, !.timer0 = playTimer,
                                   !.custom0 = hasCustomTimer]
    /\ UNCHANGED <<timeouts, timerSeconds, nextId, generating, notUI>>

NotFound == -1

\* lines 231-237 and 242-248: the first k in from..(to - 1) with
\* items[k]?.hasAudio
RECURSIVE SearchAudio(_, _, _)
SearchAudio(items, from, to) ==
    IF from >= to THEN NotFound
    ELSE IF from < Len(items) /\ items[from + 1].hasAudio THEN from
    ELSE SearchAudio(items, from + 1, to)

\* the search without its second loop
NextIndexNoWrap(items, currentIndex) ==
    SearchAudio(items, currentIndex + 1, Len(items))

\* lines 226-249: after the current position, then from the start
NextIndex(items, currentIndex) ==
    IF SearchAudio(items, currentIndex + 1, Len(items)) # NotFound
    THEN SearchAudio(items, currentIndex + 1, Len(items))
    ELSE SearchAudio(items, 0, currentIndex)

\* a callback handed to setTimeout; from records the position
\* handleAudioEnded saw
Timeout(kind, index, from) == [kind |-> kind, index |-> index, from |-> from]

\* the hook's onend (the audio the player plays has ended) calling
\* handleAudioEnded, lines 211-269
AudioEnded ==
    /\ playing # NoSrc
    /\ playing' = NoSrc
    /\ LET items        == sentenceItems
           currentIndex == currentPlayingIndex
           nextIndex    == NextIndex(items, currentIndex)
       IN  IF ~isAutoPlay \/ currentIndex = NullIndex
           THEN UNCHANGED timeouts
           ELSE IF nextIndex # NotFound
           THEN /\ Len(timeouts) < MaxTimeouts
                /\ timeouts' = Append(timeouts, Timeout("advance", nextIndex, currentIndex))
           ELSE IF currentIndex < Len(items) /\ items[currentIndex + 1].hasAudio
           THEN /\ Len(timeouts) < MaxTimeouts
                /\ timeouts' = Append(timeouts,
                                      Timeout("retriggerNull", currentIndex, currentIndex))
           ELSE UNCHANGED timeouts
    /\ uiLast' = [NoHandler EXCEPT !.h = "audioEnded", !.index0 = currentPlayingIndex,
                                   !.auto0 = isAutoPlay, !.pending0 = Len(timeouts),
                                   !.own = (playing = CurrentAudioPath(sentenceItems,
                                                                       currentPlayingIndex))]
    /\ UNCHANGED <<sentenceItems, currentPlayingIndex, isAutoPlay, playTimer, hasCustomTimer,
                   playTimerRef, ticks, timerSeconds, nextId, generating, notUI>>

\* the callback is the only one pending, it was set when the audio of the
\* sentence at currentPlayingIndex ended with auto-play on, and nothing has
\* run between that end and the callback (but, for the second callback of a
\* retrigger, the first)
QuietSinceEnded(t) ==
    /\ Len(timeouts) = 1
    /\ \/ /\ t.kind \in {"advance", "retriggerNull"}
          /\ uiLast.h = "audioEnded"
          /\ uiLast.own
          /\ uiLast.auto0
          /\ uiLast.pending0 = 0
       \/ /\ t.kind = "retriggerPlay"
          /\ uiLast.h = "timeout"
          /\ uiLast.fired.kind = "retriggerNull"
          /\ uiLast.quiet

\* the timers run out in the order of their times: the callbacks of the
\* 100 ms timers (lines 256 and 262) in the order they were set, the callback
\* of a 50 ms timer (line 264) before the 50 ms timers set after it and
\* before or after a 100 ms timer set less than 100 ms before it
CanFire(k) ==
    \/ k = 1
    \/ /\ timeouts[k].kind = "retriggerPlay"
       /\ \A j \in 1..(k - 1) : timeouts[j].kind # "retriggerPlay"

RemoveAt(seq, k) == SubSeq(seq, 1, k - 1) \o SubSeq(seq, k + 1, Len(seq))

\* the callbacks of lines 256-258, 262-267 and 264-266
FireTimeout ==
    \E k \in 1..Len(timeouts) :
        /\ CanFire(k)
        /\ LET t == timeouts[k]
           IN  /\ CASE t.kind = "advance" ->
                         /\ Render(sentenceItems, t.index)
                         /\ timeouts' = RemoveAt(timeouts, k)
                    [] t.kind = "retriggerNull" ->
                         /\ Render(sentenceItems, NullIndex)
                         /\ timeouts' = Append(RemoveAt(timeouts, k),
                                               Timeout("retriggerPlay", t.index, t.from))
                    [] t.kind = "retriggerPlay" ->
                         /\ Render(sentenceItems, t.index)
                         /\ timeouts' = RemoveAt(timeouts, k)
               /\ uiLast' = [NoHandler EXCEPT !.h = "timeout", !.fired = t,
                                              !.quiet = QuietSinceEnded(t),
                                              !.afterStop = (uiLast.h = "stopAll")]
        /\ UNCHANGED <<isAutoPlay, playTimer, hasCustomTimer, playTimerRef, ticks, timerSeconds, nextId,
                       generating, notUI>>

\* lines 364-380: the edit of item k + 1 is saved with the text typed
HandleSaveEdit(k, text) ==
    /\ k < Len(sentenceItems)
    /\ Render([sentenceItems EXCEPT ![k + 1].text = text, ![k + 1].hasAudio = FALSE,
                                    ![k + 1].spoken = NoText],
              currentPlayingIndex)
    /\ Handled
    /\ UNCHANGED <<isAutoPlay, playTimer, hasCustomTimer, playTimerRef, timeouts, ticks,
                   timerSeconds, nextId, generating, notUI>>

\* lines 413-429, the deletion confirmed
HandleDeleteSentence(deletedIndex) ==
    /\ deletedIndex < Len(sentenceItems)
    /\ Render(SubSeq(sentenceItems, 1, deletedIndex)
                  \o SubSeq(sentenceItems, deletedIndex + 2, Len(sentenceItems)),
              IF currentPlayingIndex = deletedIndex THEN NullIndex ELSE currentPlayingIndex)
    /\ Handled
    /\ UNCHANGED <<isAutoPlay, playTimer, hasCustomTimer, playTimerRef, timeouts, ticks,
                   timerSeconds, nextId, generating, notUI>>

\* lines 431-454
HandleInsertSentence(afterIndex) ==
    /\ afterIndex < Len(sentenceItems)
    /\ nextId' = nextId + 1
    /\ Render(Slice(SubSeq(sentenceItems, 1, afterIndex + 1) \o <<NewItem(nextId)>>
                        \o SubSeq(sentenceItems, afterIndex + 2, Len(sentenceItems)),
                    MAX_HISTORY),
              currentPlayingIndex)
    /\ Handled
    /\ UNCHANGED <<isAutoPlay, playTimer, hasCustomTimer, playTimerRef, timeouts, ticks,
                   timerSeconds, generating, notUI>>

\* lines 457-474
HandleAddSentenceAtStart ==
    /\ nextId' = nextId + 1
    /\ Render(Slice(<<NewItem(nextId)>> \o sentenceItems, MAX_HISTORY), currentPlayingIndex)
    /\ Handled
    /\ UNCHANGED <<isAutoPlay, playTimer, hasCustomTimer, playTimerRef, timeouts, ticks,
                   timerSeconds, generating, notUI>>

\* lines 478-482, the clearing confirmed
HandleClearAll ==
    /\ sentenceItems # <<>>
    /\ Render(<<>>, currentPlayingIndex)
    /\ Handled
    /\ UNCHANGED <<isAutoPlay, playTimer, hasCustomTimer, playTimerRef, timeouts, ticks,
                   timerSeconds, nextId, generating, notUI>>

\* the new sentences after the old ones
MergeAfter(newItems, prev) == Slice(prev \o newItems, MAX_HISTORY)

\* line 102: [...newItems, ...prev].slice(0, MAX_HISTORY)
Merge(newItems, prev) == Slice(newItems \o prev, MAX_HISTORY)

\* lines 89-107: the effect of a new value of the prop sentences, count
\* sentences parsed from a document
NewSentences(count) ==
    /\ count > 0
    /\ nextId' = nextId + count
    /\ Render(Merge([k \in 1..count |-> Item(nextId + k - 1, FALSE)], sentenceItems),
              currentPlayingIndex)
    /\ uiLast' = [NoHandler EXCEPT !.h = "newSentences", !.items0 = sentenceItems,
                                   !.count0 = count]
    /\ UNCHANGED <<isAutoPlay, playTimer, hasCustomTimer, playTimerRef, timeouts, ticks,
                   timerSeconds, generating, notUI>>

\* the texts of the items whose text is not blank, in the order of the list
RECURSIVE TextsToGenerate(_)
TextsToGenerate(items) ==
    IF items = <<>> THEN <<>>
    ELSE IF Head(items).text # NoText
         THEN <<Head(items).text>> \o TextsToGenerate(Tail(items))
         ELSE TextsToGenerate(Tail(items))

\* lines 135-143: the click on Generate All, up to the await; the button is
\* disabled while isGenerating and while the list is empty
HandleGenerateAll ==
    /\ generating = NoRequest
    /\ sentenceItems # <<>>
    /\ generating' = TextsToGenerate(sentenceItems)
    /\ Handled
    /\ UNCHANGED <<sentenceItems, currentPlayingIndex, playing, isAutoPlay, playTimer,
                   hasCustomTimer, playTimerRef, timeouts, ticks, timerSeconds, nextId,
                   notUI>>

\* lines 147-158: prev.map with resultIndex counting the items whose text is
\* not blank; results is the list of the response, one [success, spoken]
\* per sentence sent
RECURSIVE ApplyResults(_, _, _)
ApplyResults(prev, results, resultIndex) ==
    IF prev = <<>> THEN <<>>
    ELSE LET item == Head(prev)
         IN  IF item.text # NoText
             THEN <<IF resultIndex < Len(results) /\ results[resultIndex + 1].success
                    THEN [item EXCEPT !.hasAudio = TRUE,
                                      !.spoken = results[resultIndex + 1].spoken]
                    ELSE item>>
                      \o ApplyResults(Tail(prev), results, resultIndex + 1)
             ELSE <<item>> \o ApplyResults(Tail(prev), results, resultIndex)

\* lines 144-165: the batch request has been answered.  success[i] tells
\* whether the i-th sentence sent got its audio (the i-th result is the one of
\* the i-th sentence sent); failed is the request rejected (an answer 400 or
\* 500), which the catch of line 160 logs
GenerateAllDone(success, failed) ==
    /\ generating # NoRequest
    /\ generating' = NoRequest
    /\ IF failed
       THEN Render(sentenceItems, currentPlayingIndex)
       ELSE Render(ApplyResults(sentenceItems,
                                [i \in 1..Len(generating) |->
                                    [success |-> success[i], spoken |-> generating[i]]],
                                0),
                   currentPlayingIndex)
    /\ Handled
    /\ UNCHANGED <<isAutoPlay, playTimer, hasCustomTimer, playTimerRef, timeouts, ticks,
                   timerSeconds, nextId, notUI>>

\* the list is shorter than MaxItems and fewer than MaxIds ids are handed out
CanAdd == Len(sentenceItems) < MaxItems /\ nextId <= MaxIds

NextUI ==
    \/ \E index \in 0..(MaxItems - 1) : HandlePlaySentence(index)
    \/ HandlePlayAll
    \/ ToggleAutoPlay
    \/ HandleStopAll
    \/ AudioEnded
    \/ FireTimeout
    \/ \E k \in 0..(Len(sentenceItems) - 1) : HandleSaveEdit(k, sentenceItems[k + 1].text)
    \/ \E k \in 0..(MaxItems - 1) : HandleDeleteSentence(k)
    \/ \E k \in 0..(MaxItems - 1) : CanAdd /\ HandleInsertSentence(k)
    \/ CanAdd /\ HandleAddSentenceAtStart
    \/ HandleClearAll

InitUI ==
    /\ BatchIdle
    /\ audioDir = {}
    /\ WordBookIdle
    /\ WordRouteIdle
    /\ \E saved \in SavedLists : PageLoaded(saved)

\* the page with any saved list, under any sequence of clicks on the list and
\* the playback controls, delayed callbacks and ends of audio.  The countdown
\* runs with the length it is started with: its own steps (Tick,
\* HandleSetPlayTimer, HandleClearPlayTimer) are not steps of this
\* specification, and what its expiry does to the playback is what
\* HandleStopAll does
SpecUI == InitUI /\ [][NextUI]_vars

\* the positions the steps of SpecList act on: the first and the last
Ends(items) == {0, Len(items) - 1} \ {-1}

\* the steps that change the list
NextList ==
    \/ \E count \in {2, MAX_HISTORY + 1} :
           nextId <= MAX_HISTORY + MaxNew /\ NewSentences(count)
    \/ \E k \in Ends(sentenceItems) :
           nextId <= MAX_HISTORY + MaxNew /\ HandleInsertSentence(k)
    \/ nextId <= MAX_HISTORY + MaxNew /\ HandleAddSentenceAtStart
    \/ \E k \in Ends(sentenceItems) : HandleSaveEdit(k, sentenceItems[k + 1].text)
    \/ \E k \in Ends(sentenceItems) :
           Len(sentenceItems) >= MAX_HISTORY - 1 /\ HandleDeleteSentence(k)
    \/ HandleGenerateAll
    \/ \E ok \in BOOLEAN : GenerateAllDone([i \in 1..Len(generating) |-> ok], ~ok)
    \/ HandleClearAll

InitList ==
    /\ BatchIdle
    /\ audioDir = {}
    /\ WordBookIdle
    /\ WordRouteIdle
    /\ \E n \in {MAX_HISTORY - 1, MAX_HISTORY, MAX_HISTORY + 1} :
           PageLoaded([k \in 1..n |-> Item(k, FALSE)])

\* the page with a saved list about as long as the list may be, under any
\* sequence of arrivals of parsed sentences and of insertions, edits,
\* deletions (at the two ends of the list; deletions from a list of
\* MAX_HISTORY - 1 items or more), generations and clearings, until
\* MAX_HISTORY + MaxNew ids are handed out
SpecList == InitList /\ [][NextList]_vars

\* the steps of Generate All and of the changes of the list
NextGen ==
    \/ HandleGenerateAll
    \/ \E success \in [1..Len(generating) -> BOOLEAN] : GenerateAllDone(success, FALSE)
    \/ GenerateAllDone(<<>>, TRUE)
    \/ \E k \in 0..(MaxItems - 1), text \in EditTexts : HandleSaveEdit(k, text)
    \/ \E k \in 0..(MaxItems - 1) : HandleDeleteSentence(k)
    \/ \E k \in 0..(MaxItems - 1) : CanAdd /\ HandleInsertSentence(k)
    \/ CanAdd /\ HandleAddSentenceAtStart

\* the page with any saved list, under any sequence of Generate All, answers
\* to it and changes of the list
SpecGen == InitUI /\ [][NextGen]_vars

\* the steps of the playback and of the countdown, the list left as loaded
NextTimer ==
    \/ \E index \in 0..(MaxTimerItems - 1) : HandlePlaySentence(index)
    \/ HandlePlayAll
    \/ ToggleAutoPlay
    \/ \E minutes \in TimerMinutes : HandleSetPlayTimer(minutes)
    \/ HandleClearPlayTimer
    \/ HandleStopAll
    \/ Tick
    \/ AudioEnded
    \/ FireTimeout

InitTimer ==
    /\ BatchIdle
    /\ audioDir = {}
    /\ WordBookIdle
    /\ WordRouteIdle
    /\ \E saved \in {l \in SavedLists : Len(l) <= MaxTimerItems} : PageLoaded(saved)

\* the page with a saved list of at most MaxTimerItems items, under any
\* sequence of clicks on the playback and timer controls, countdown callbacks
\* one second apart, delayed callbacks and ends of audio; a countdown is
\* followed for MaxTicks seconds
SpecTimer == InitTimer /\ [][NextTimer]_vars

(***************************************************************************)
(* Vocabulary of the properties.                                           *)
(***************************************************************************)
Range(seq) == {seq[k] : k \in 1..Len(seq)}

\* task() has been called for position j
Started == Range(startLog)

\* execSync has been called for position j
Dispatched == Range(engineLog)

\* p exists (the loop has reached position j) and is not settled
Outstanding == {j \in Pos : pState[j] = "pending"}

\* dispatched to the engine and not settled
InFlight == {j \in Dispatched : pState[j] = "pending"}

\* positions the loop has not reached
Unadmitted == {j \in Pos : pState[j] = "none"}

\* positions whose task throws: sentence.trim is not a function
Throwing == {j \in Pos : ~sentences.items[j].isString}

AllStrings == \A j \in Pos : sentences.items[j].isString

BlankAt(j) == sentences.items[j].isString /\ Trim(sentences.items[j].chars) = <<>>

TextAt(j) == sentences.items[j].isString /\ Trim(sentences.items[j].chars) # <<>>

\* the request passes the handler's checks of lines 223-244
Accepted == sentences.isArray /\ N > 0 /\ voice \in VOICE_OPTIONS /\ edgeTtsAvailable

ResultSet == response.status = 200

ResultsAt(i) == {k \in 1..Len(response.results) : response.results[k].index = i}

(***************************************************************************)
(* Properties of the batch call.                                           *)
(***************************************************************************)
\* C1: a result set has exactly one entry per input sentence (as many entries
\* as sentences, every input position once), and every accepted list of
\* strings gets a result set, whichever jobs fail.
C1_OneResultPerSentence ==
    /\ ResultSet =>
          /\ Len(response.results) = N
          /\ \A i \in 0..(N - 1) : Cardinality(ResultsAt(i)) = 1
    /\ (pc = "responded" /\ Accepted /\ AllStrings) => ResultSet

C1_Witness ==
    /\ ResultSet
    /\ N > limit
    /\ \E j \in Pos : BlankAt(j)
    /\ \E j \in Pos : gOut[j] \in EngineFailures
    /\ \E j \in Pos : gOut[j] = "ok"
    /\ \E j \in Pos : pState[j] = "rejected"

\* C2: position i of a result set describes the sentence at position i of the
\* input: results[i].index = i.
C2_IndexOrdered ==
    ResultSet =>
        \A k \in 1..Len(response.results) : response.results[k].index = k - 1

C2_Witness ==
    /\ ResultSet
    /\ N > limit
    /\ response.successCount >= 2
    /\ \E j \in Pos : ~response.results[j].success

\* C3: at every instant at most limit jobs are dispatched to the engine and not
\* settled; the same holds of all the jobs the loop has admitted.
C3_AtMostLimitInFlight ==
    /\ Cardinality(InFlight) <= limit
    /\ Cardinality(Outstanding) <= limit
    /\ Len(executing) <= limit

C3_Witness ==
    /\ limit >= 2
    /\ N > limit
    /\ plPc = "awaitRace"
    /\ Cardinality(InFlight) = limit

\* C4 (as claimed): a failing job never aborts the call: once the jobs of an
\* accepted request exist, the response is a result set.
C4_FailureNeverAborts ==
    (pc = "responded" /\ plPc # "none" /\ Cardinality(Throwing) <= 1) =>
        /\ ResultSet
        /\ \A j \in Pos : response.results[j].success <=> gOut[j] = "ok"

\* C5: jobs are started in input order, and the job the loop admits next is
\* the lowest-indexed one not yet admitted.
C5_DispatchInInputOrder ==
    /\ \A k \in 1..Len(startLog) : startLog[k] = k
    /\ \A k \in 1..Len(engineLog) : \A m \in 1..Len(engineLog) :
          k < m => engineLog[k] < engineLog[m]
    /\ \A j \in Pos : pState[j] # "none" => \A i \in 1..j : pState[i] # "none"

C5_Witness ==
    /\ N > limit
    /\ plPc = "returned"
    /\ races >= 1
    /\ Len(startLog) < N
    /\ Len(startLog) >= limit

\* C6 (as claimed): admission is a sliding window: no state is reached in
\* which the loop is still blocked on its await with jobs left to admit
\* although every job of the window (of two or more jobs, all with text) has
\* settled; the next job would have been admitted when the first one settled.
C6_SlidingWindow ==
    ~(/\ plPc = "awaitRace"
      /\ limit >= 2
      /\ \A j \in Pos : TextAt(j)
      /\ Unadmitted # {}
      /\ Outstanding = {})

\* what the code does instead: whenever the loop goes on after an await, every
\* job admitted so far has settled and executing holds no live entry, so jobs
\* are admitted a window at a time
AdmissionAfterWholeWindow ==
    (HeadIs("loopResume") /\ Head(mq).how = "fulfilled") =>
        /\ Outstanding = {}
        /\ \A k \in 1..Len(executing) : eState[executing[k]] = "rejected"

\* C7: a blank job is never dispatched to the engine, and its result is the
\* failure with no audio path and the fixed empty-text error.
C7_BlankNeverDispatched ==
    \A j \in Pos : BlankAt(j) =>
        /\ j \notin Dispatched
        /\ gOut[j] = "none"
        /\ tState[j] # "none" =>
              /\ tState[j] = "fulfilled"
              /\ tValue[j] = [index |-> j - 1, text |-> Str(<<>>), audioPath |-> NULL,
                              success |-> FALSE, error |-> ERR_EMPTY_TEXT]
        /\ ResultSet => response.results[j] = tValue[j]

C7_Witness ==
    /\ ResultSet
    /\ \E j \in Pos : BlankAt(j) /\ j \in Started
    /\ \E j \in Pos : j \in Dispatched

\* C8 (as claimed): a blank job is never among the entries of executing that
\* are compared against the limit, and the loop never waits on blank jobs
\* before it admits a job with text (stated for lists of strings).
C8_BlankTakesNoSlot ==
    AllStrings =>
        /\ \A k \in 1..Len(executing) : ~BlankAt(executing[k])
        /\ ~(/\ plPc = "awaitRace"
             /\ nextTask <= N
             /\ TextAt(nextTask)
             /\ Cardinality({j \in Range(executing) : ~BlankAt(j)}) < limit)

\* C8 (amended): a blank job is never dispatched to the engine, but when the
\* loop tracks its entries (limit <= number of tasks) the job holds an entry of
\* executing, counted against the limit, from its admission until it settles.
C8_BlankCountedNotDispatched ==
    \A j \in Pos : BlankAt(j) =>
        /\ j \notin Dispatched
        /\ (limit <= N /\ pState[j] = "pending") => j \in Range(executing)
        /\ Len(executing) <= limit

C8_Witness ==
    /\ plPc = "awaitRace"
    /\ Len(executing) = limit
    /\ \A k \in 1..Len(executing) : BlankAt(executing[k])
    /\ nextTask <= N
    /\ TextAt(nextTask)

\* C9: in a result set successCount is the number of results flagged success
\* (which is the number of jobs whose engine invocation succeeded), total is
\* the number of sentences, and 0 <= successCount <= total.
C9_SuccessCount ==
    ResultSet =>
        /\ response.successCount
              = Cardinality({k \in 1..Len(response.results) : response.results[k].success})
        /\ response.successCount = Cardinality({j \in Pos : gOut[j] = "ok"})
        /\ response.total = N
        /\ 0 <= response.successCount
        /\ response.successCount <= response.total

C9_Witness ==
    /\ ResultSet
    /\ response.successCount > 0
    /\ response.successCount < response.total
    /\ \E j \in Pos : gOut[j] \in EngineFailures

\* C10 (as claimed): an empty list of jobs gets an empty outcome, not an error.
C10_EmptyListAccepted ==
    (pc = "responded" /\ sentences.isArray /\ N = 0) =>
        /\ response.status = 200
        /\ response.results = <<>>
        /\ response.successCount = 0

\* C10 (amended): an empty list of jobs is refused with the 400 error of a
\* missing list, and nothing is dispatched for it.
C10_EmptyListRejected ==
    (pc = "responded" /\ sentences.isArray /\ N = 0) =>
        /\ response = [NoResponse EXCEPT !.status = 400, !.error = ERR_BAD_SENTENCES]
        /\ plPc = "none"
        /\ startLog = <<>>

C10_Witness ==
    /\ pc = "responded"
    /\ sentences.isArray
    /\ N = 0
    /\ voice \in VOICE_OPTIONS
    /\ edgeTtsAvailable

C12_FailsBeforeDispatch ==
    (pc = "responded" /\ ~ResultSet) => engineLog = <<>>

\* what the code does: the failures of lines 223-244 come before any dispatch,
\* and nothing is dispatched once the handler has answered
ValidationFailsBeforeDispatch ==
    /\ (pc = "responded" /\ plPc = "none") => (engineLog = <<>> /\ startLog = <<>>)
    /\ pc = "responded" => \A k \in 1..Len(mq) : mq[k].t # "start"

\* C13 (as claimed): when the call of an accepted request responds, every job
\* has settled (none is in flight, none was left unstarted) and the response
\* holds the outcome of every job.
C13_CompleteResultSet ==
    (pc = "responded" /\ plPc # "none") =>
        /\ Outstanding = {}
        /\ Unadmitted = {}
        /\ Started = Pos
        /\ ResultSet
        /\ Len(response.results) = N

\* what the code does: a response that is a result set is complete
ResultSetIsComplete ==
    ResultSet =>
        /\ Outstanding = {}
        /\ Unadmitted = {}
        /\ Started = Pos
        /\ Len(response.results) = N
        /\ \A j \in Pos : tState[j] = "fulfilled" => response.results[j] = tValue[j]

\* number of engine invocations, and of calls of task(), for position j
Invocations(j) == Cardinality({k \in 1..Len(engineLog) : engineLog[k] = j})

Starts(j) == Cardinality({k \in 1..Len(startLog) : startLog[k] = j})

\* C14: the runner never retries: within one call the engine is invoked at
\* most once per job, never for a blank job and exactly once for a job with
\* text once it has been started (so for every job with text of a result
\* set); a job whose invocation failed stays failed and is not dispatched again.
C14_NeverRetries ==
    \A j \in Pos :
        /\ Invocations(j) <= 1
        /\ Starts(j) <= 1
        /\ BlankAt(j) => Invocations(j) = 0
        /\ (TextAt(j) /\ j \in Started) => Invocations(j) = 1
        /\ (TextAt(j) /\ ResultSet) => Invocations(j) = 1
        /\ (gOut[j] \in EngineFailures /\ tState[j] = "fulfilled") =>
              /\ Invocations(j) = 1
              /\ ~tValue[j].success
              /\ ResultSet => ~response.results[j].success

C14_Witness ==
    /\ ResultSet
    /\ N > limit
    /\ \E j \in Pos : gOut[j] \in EngineFailures /\ Invocations(j) = 1
    /\ \E j \in Pos : gOut[j] = "ok"
    /\ \E j \in Pos : BlankAt(j)

\* C15 (as claimed): every call that reaches parallelLimit terminates with its
\* work done: every job of the batch is eventually started, every dispatched
\* job has run to completion, and the call has returned its response.
C15_EveryCallTerminates ==
    (pc = "awaitPL") ~> (pc = "responded" /\ Started = Pos /\ Outstanding = {})

\* what the code does: every call returns a response, and the loop never
\* stays at its await for ever
CallAlwaysResponds ==
    /\ (pc = "request") ~> (pc = "responded")
    /\ (plPc = "awaitRace") ~> (plPc # "awaitRace")

\* the name {batchId}_{position, three digits}.mp3 of the job at position j
ArtifactName(j) ==
    <<"uuid", "_", "0", "0", <<"1", "2", "3", "4", "5", "6", "7", "8", "9">>[j], ".mp3">>

\* C16: the job at 0-based position i writes {batchId}_{i+1, zero-padded to
\* three digits}.mp3, numbered by its position in the input (blank jobs use up
\* their number); no two jobs write the same file; the audioPath of a
\* successful job is the path of its own file.
C16_OwnArtifact ==
    /\ \A f \in audioDir : f.by \in Dispatched /\ f.name = ArtifactName(f.by)
    /\ \A j \in Dispatched :
          gOut[j] \in {"ok", "emptyfile"} =>
              [name |-> ArtifactName(j), empty |-> (gOut[j] = "emptyfile"), by |-> j]
                  \in audioDir
    /\ \A j \in Pos : \A k \in Pos : j # k => ArtifactName(j) # ArtifactName(k)
    /\ \A j \in Pos :
          (tState[j] = "fulfilled" /\ tValue[j].success) =>
              /\ tValue[j].audioPath = <<"/audio/">> \o ArtifactName(j)
              /\ [name |-> ArtifactName(j), empty |-> FALSE, by |-> j] \in audioDir
    /\ ResultSet =>
          \A j \in Pos :
              response.results[j].success =>
                  response.results[j].audioPath = <<"/audio/">> \o ArtifactName(j)

C16_Witness ==
    /\ ResultSet
    /\ N > limit
    /\ \E j \in Pos : \E k \in Pos :
          j < k /\ BlankAt(j) /\ response.results[k].success
    /\ Cardinality({f \in audioDir : ~f.empty}) >= 2

(***************************************************************************)
(* Properties of the wordbook.                                             *)
(***************************************************************************)
\* C17 (as documented): every modification of the wordbook leaves a backup of
\* it under data/backups: after a successful add, update, delete or import
\* some backup file holds the wordbook as it now is.
C17_BackupAfterEveryChange ==
    (wbResponse.op \in {"post", "put", "delete", "import"} /\ wbResponse.status = 200) =>
        \E k \in 1..Len(backups) : backups[k].words = wordbook

\* what the code does: a backup is written by POST /api/wordbook/backup only
BackupOnlyOnRequest ==
    [][backups' # backups => wbResponse'.op = "backup"]_vars

\* C18 (as documented): the list of GET /api/wordbook, and the list the
\* WordBook view shows, has the most recently added word first.
C18_NewestFirst ==
    (wbResponse.op = "get" /\ words # <<>>) =>
        /\ words = wbResponse.words
        /\ \A k \in 1..Len(words) : words[1].addedAt >= words[k].addedAt

\* what the code does: the list is in the order of the file, where a new word
\* is appended
ListedInFileOrder ==
    /\ wbResponse.op = "get" => (words = wordbook /\ wbResponse.words = wordbook)
    /\ [][\A w \in WordInputs : \A m \in MeaningInputs :
            (PostWord(w, m) /\ Len(wordbook') > Len(wordbook)) =>
                /\ SubSeq(wordbook', 1, Len(wordbook)) = wordbook
                /\ wordbook'[Len(wordbook')].addedAt = clock']_vars

(***************************************************************************)
(* Properties of POST /api/tts/generate-word.                              *)
(***************************************************************************)
\* C19: once a request has produced the audio file of a word (200 with
\* cached = false), every later request for that word gets 200 with the same
\* audioPath and cached = true, and makes no engine invocation.
C19_CachedAfterFirst ==
    \A i \in 1..Len(wordLog) : \A k \in 1..Len(wordLog) :
        (i < k /\ wordLog[i].word = wordLog[k].word
               /\ wordLog[i].status = 200 /\ ~wordLog[i].cached) =>
            /\ wordLog[i].invoked
            /\ wordLog[k].status = 200
            /\ wordLog[k].cached
            /\ wordLog[k].audioPath = wordLog[i].audioPath
            /\ ~wordLog[k].invoked

C19_Witness ==
    /\ Len(wordLog) >= 3
    /\ wordLog[1].status = 500
    /\ wordLog[2].status = 200 /\ ~wordLog[2].cached /\ wordLog[2].invoked
    /\ wordLog[3].word = wordLog[2].word
    /\ wordLog[3].cached

\* the first position after i, going round the list, of an item with audio
\* other than the item at i
CyclicNext(items, i) ==
    LET n     == Len(items)
        ahead == {d \in 1..(n - 1) : items[((i + d) % n) + 1].hasAudio}
    IN  IF ahead = {} THEN NotFound
        ELSE (i + (CHOOSE d \in ahead : \A e \in ahead : d <= e)) % n

\* the audio of the sentence at currentPlayingIndex has just ended
OwnAudioEnded == uiLast.h = "audioEnded" /\ uiLast.own

\* C20: continuous playback advances cyclically.  When the audio of the
\* sentence at currentPlayingIndex ends with auto-play on, the callback set is
\* the advance to the first item with audio after the current position, going
\* round to the start of the list, or the replay of the current item when no
\* other item has audio; when that callback runs with nothing in between, the
\* position is that item's and its audio is the one played (for the replay:
\* the position is cleared, then set again and the audio played again).  With
\* auto-play off the end of an audio sets no callback and leaves
\* currentPlayingIndex as it was.
C20_CyclicAdvance ==
    /\ (OwnAudioEnded /\ uiLast.auto0) =>
            /\ currentPlayingIndex = uiLast.index0
            /\ Len(timeouts) = uiLast.pending0 + 1
            /\ LET t    == timeouts[Len(timeouts)]
                   next == CyclicNext(sentenceItems, uiLast.index0)
               IN  IF next # NotFound
                   THEN t = Timeout("advance", next, uiLast.index0)
                   ELSE t = Timeout("retriggerNull", uiLast.index0, uiLast.index0)
    /\ (uiLast.h = "audioEnded" /\ ~uiLast.auto0) =>
            /\ currentPlayingIndex = uiLast.index0
            /\ Len(timeouts) = uiLast.pending0
    /\ (uiLast.h = "timeout" /\ uiLast.quiet) =>
            LET t == uiLast.fired
            IN  CASE t.kind = "advance" ->
                       /\ t.index = CyclicNext(sentenceItems, t.from)
                       /\ currentPlayingIndex = t.index
                       /\ sentenceItems[t.index + 1].hasAudio
                       /\ playing = sentenceItems[t.index + 1].id
                  [] t.kind = "retriggerNull" ->
                       /\ CyclicNext(sentenceItems, t.from) = NotFound
                       /\ currentPlayingIndex = NullIndex
                       /\ playing = NoSrc
                       /\ timeouts = <<Timeout("retriggerPlay", t.from, t.from)>>
                  [] t.kind = "retriggerPlay" ->
                       /\ CyclicNext(sentenceItems, t.from) = NotFound
                       /\ currentPlayingIndex = t.from
                       /\ sentenceItems[t.from + 1].hasAudio
                       /\ playing = sentenceItems[t.from + 1].id

\* the advance has gone round: from the last item with audio to an earlier
\* one, over an item without audio, and the earlier one is being played
C20_Witness ==
    /\ uiLast.h = "timeout"
    /\ uiLast.quiet
    /\ uiLast.fired.kind = "advance"
    /\ uiLast.fired.index < uiLast.fired.from
    /\ uiLast.fired.index > 0
    /\ ~sentenceItems[1].hasAudio
    /\ isAutoPlay
    /\ playing = sentenceItems[uiLast.fired.index + 1].id

\* the only item with audio is being played again
C20_ReplayWitness ==
    /\ uiLast.h = "timeout"
    /\ uiLast.quiet
    /\ uiLast.fired.kind = "retriggerPlay"
    /\ Len(sentenceItems) > 1
    /\ playing = sentenceItems[uiLast.fired.index + 1].id

\* C21: a running play timer stops the playback when it expires.  While the
\* countdown interval of startPlayTimer(n) is active, k ticks after the call
\* the remaining time is n - k, with k < n: each tick takes exactly 1 off.
\* The n-th tick leaves no interval, no remaining time, auto-play off, no
\* playing index and the custom-timer flag off.  Without an interval there
\* is no remaining time.
C21_TimerExpires ==
    /\ playTimerRef =>
            /\ timerSeconds # NoTimer
            /\ ticks < timerSeconds
            /\ playTimer = timerSeconds - ticks
    /\ ~playTimerRef => playTimer = NoTimer
    /\ (uiLast.h = "tick" /\ playTimerRef) => playTimer = uiLast.timer0 - 1
    /\ (uiLast.h = "tick" /\ ~playTimerRef) =>
            /\ ticks = timerSeconds
            /\ ~isAutoPlay
            /\ currentPlayingIndex = NullIndex
            /\ playTimer = NoTimer
            /\ ~hasCustomTimer

\* a custom timer has run out during continuous playback
C21_Witness ==
    /\ uiLast.h = "tick"
    /\ ~playTimerRef
    /\ ticks = timerSeconds
    /\ uiLast.timer0 = 1
    /\ uiLast.auto0
    /\ uiLast.custom0
    /\ uiLast.index0 # NullIndex

\* C22: Play All starts the default countdown of 7200 seconds only when no
\* custom timer is set.  With the custom-timer flag on, a countdown is running
\* and handlePlayAll leaves its remaining time as it was; with the flag off it
\* starts a countdown of 7200 seconds; with no item that has audio it changes
\* neither the auto-play flag, nor the playing index, nor the timer.
C22_DefaultTimerOnlyWithoutCustom ==
    /\ hasCustomTimer => (playTimerRef /\ playTimer # NoTimer)
    /\ uiLast.h = "playAll" =>
            IF HasAnyAudio(sentenceItems)
            THEN /\ isAutoPlay
                 /\ currentPlayingIndex = FirstWithAudioFrom(sentenceItems, 0)
                 /\ IF uiLast.custom0
                    THEN /\ playTimer = uiLast.timer0
                         /\ playTimer # NoTimer
                         /\ playTimerRef
                         /\ hasCustomTimer
                    ELSE /\ playTimer = TWO_HOURS
                         /\ timerSeconds = TWO_HOURS
                         /\ ticks = 0
                         /\ playTimerRef
            ELSE /\ isAutoPlay = uiLast.auto0
                 /\ currentPlayingIndex = uiLast.index0
                 /\ playTimer = uiLast.timer0

\* Play All has run while a custom timer had some of its time left
C22_Witness ==
    /\ uiLast.h = "playAll"
    /\ uiLast.custom0
    /\ uiLast.timer0 # NoTimer
    /\ uiLast.timer0 < timerSeconds
    /\ playTimer = uiLast.timer0
    /\ isAutoPlay

\* Play All has run with no item that has audio
C22_NoAudioWitness ==
    /\ uiLast.h = "playAll"
    /\ sentenceItems # <<>>
    /\ ~HasAnyAudio(sentenceItems)

\* C23: the list never holds more than MAX_HISTORY items, and newly parsed
\* sentences are placed before the older ones, so that what is dropped is
\* dropped from the old end: after count sentences have arrived the list is
\* the new items in their order, then the items the list held, cut after
\* MAX_HISTORY items.
C23_AtMostMaxHistory ==
    /\ Len(sentenceItems) <= MAX_HISTORY
    /\ uiLast.h = "newSentences" =>
            LET m   == uiLast.count0
                old == uiLast.items0
            IN  /\ Len(sentenceItems)
                      = IF m + Len(old) < MAX_HISTORY THEN m + Len(old) ELSE MAX_HISTORY
                /\ \A i \in 1..Len(sentenceItems) :
                      IF i <= m
                      THEN /\ sentenceItems[i].id = nextId - m + i - 1
                           /\ \A k \in 1..Len(old) : old[k].id # sentenceItems[i].id
                      ELSE sentenceItems[i] = old[i - m]

\* two sentences have arrived in a list of MAX_HISTORY - 1 items: the list
\* is full and its last item is gone
C23_Witness ==
    /\ uiLast.h = "newSentences"
    /\ uiLast.count0 = 2
    /\ Len(uiLast.items0) = MAX_HISTORY - 1
    /\ Len(sentenceItems) = MAX_HISTORY
    /\ sentenceItems[MAX_HISTORY] = uiLast.items0[MAX_HISTORY - 2]

\* more sentences than the list may hold have arrived
C23_LongDocumentWitness ==
    /\ uiLast.h = "newSentences"
    /\ uiLast.count0 > MAX_HISTORY
    /\ uiLast.items0 # <<>>
    /\ Len(sentenceItems) = MAX_HISTORY

\* the stored list holds the word, compared without regard to case
Holds(list, word) ==
    \E k \in 1..Len(list) : ToLowerCase(list[k].word) = ToLowerCase(word)

\* C24: an update or a deletion of a word the wordbook does not hold
\* (compared without regard to case) is answered 404, and no other update or
\* deletion is; an addition without a word or without a meaning is answered
\* 400, and no other addition is; a request answered 400 or 404 leaves the
\* stored wordbook as it found it.
C24_RejectedLeavesWordbook ==
    /\ wbResponse.op \in {"put", "delete"} =>
            (wbResponse.status = 404 <=> ~Holds(wbResponse.before, wbResponse.word.chars))
    /\ wbResponse.op = "post" =>
            (wbResponse.status = 400
                <=> (~Truthy(wbResponse.word) \/ ~Truthy(wbResponse.meaning)))
    /\ wbResponse.status \in {400, 404} => wordbook = wbResponse.before

\* an update of a word that is not among the stored words has been answered
C24_Witness ==
    /\ wbResponse.op = "put"
    /\ wbResponse.status = 404
    /\ wbResponse.before # <<>>
    /\ wordbook = wbResponse.before

\* an update whose word differs by case from the stored one has been done
C24_CaseWitness ==
    /\ wbResponse.op = "put"
    /\ wbResponse.status = 200
    /\ \A k \in 1..Len(wbResponse.before) :
           wbResponse.before[k].word # wbResponse.word.chars

\* C25 (as claimed): Stop is final.  Right after handleStopAll auto-play is
\* off, currentPlayingIndex is null and the timer is cleared; and a delayed
\* callback of handleAudioEnded that runs next, before the user has started
\* any playback, leaves currentPlayingIndex null and starts no audio.
C25_StopIsFinal ==
    /\ uiLast.h = "stopAll" =>
            /\ ~isAutoPlay
            /\ currentPlayingIndex = NullIndex
            /\ playTimer = NoTimer
            /\ ~playTimerRef
    /\ (uiLast.h = "timeout" /\ uiLast.afterStop) =>
            /\ currentPlayingIndex = NullIndex
            /\ playing = NoSrc

\* what the code does: Stop itself leaves the page stopped, and the audio of a
\* sentence starts after it only through a delayed callback or a click on play
C25_StopItself ==
    uiLast.h = "stopAll" =>
        /\ ~isAutoPlay
        /\ currentPlayingIndex = NullIndex
        /\ playTimer = NoTimer
        /\ ~playTimerRef
        /\ ~hasCustomTimer

\* C26 (as claimed): whenever currentPlayingIndex is not null it is a
\* position of sentenceItems, the item there has audio, and it is the item
\* whose audio the player was given.
C26_IndexDesignatesItsSentence ==
    currentPlayingIndex # NullIndex =>
        /\ currentPlayingIndex < Len(sentenceItems)
        /\ sentenceItems[currentPlayingIndex + 1].hasAudio
        /\ playing # NoSrc => sentenceItems[currentPlayingIndex + 1].id = playing

\* C27 (as claimed): once Generate All has completed, every item marked
\* hasAudio holds the audio generated from its own current text.
C27_AudioOfOwnText ==
    generating = NoRequest =>
        \A k \in 1..Len(sentenceItems) :
            sentenceItems[k].hasAudio => sentenceItems[k].spoken = sentenceItems[k].text

\* C28 (as claimed): the wordbook never holds two entries for the same word:
\* no two stored entries have words that are equal without regard to case,
\* whatever was added, imported, updated and deleted, with or without
\* whitespace around the submitted words.
C28_NoDuplicateWords ==
    \A j, k \in 1..Len(wordbook) :
        ToLowerCase(wordbook[j].word) = ToLowerCase(wordbook[k].word) => j = k

C30_NeverPrunedAtOrAboveLength ==
    [][/\ limit >= N => \A j \in Range(executing) : j \in Range(executing')
       /\ limit < N =>
             \A j \in Pos : eState'[j] \in {"fulfilled", "rejected"}
                                 => j \notin Range(executing')]_vars

\* C30 (amended): with limit > tasks.length executing is never used: no job
\* gets an entry and the array stays empty.  With limit <= tasks.length,
\* limit = tasks.length included, every admitted job gets an entry, which is
\* removed when the job is fulfilled and stays for good when it is rejected.
C30_PrunedWheneverTracked ==
    /\ limit > N => executing = <<>> /\ \A j \in Pos : eState[j] = "none"
    /\ limit <= N =>
            \A j \in Pos :
                /\ pState[j] # "none" => eState[j] # "none"
                /\ j \in Range(executing) <=> eState[j] \in {"pending", "rejected"}

\* limit = tasks.length: the entry of a fulfilled job has been removed while
\* another job of the batch is still pending
C30_Witness ==
    /\ limit = N
    /\ N >= 2
    /\ \E j \in Pos : eState[j] = "fulfilled" /\ j \notin Range(executing)
    /\ \E j \in Pos : eState[j] = "pending" /\ j \in Range(executing)

\* limit > tasks.length: jobs have settled and executing never held them
C30_UntrackedWitness ==
    /\ limit > N
    /\ \E j \in Pos : pState[j] = "fulfilled"
    /\ executing = <<>>

====
